---- MODULE Spec2Model ----
(***************************************************************************)
(* Model of the tnyr.me backend (src/backend/main.py): the two record      *)
(* namespaces (tables urls and client_side_urls), the request handlers     *)
(* shorten_url_server, shorten_url_client, get_encrypted_url, redirect_url *)
(* and delete_url, run by concurrent workers that each hold their own      *)
(* sqlite connection.  A handler is split into steps at its database       *)
(* statements: everything between two statements is local to the request.  *)
(*                                                                         *)
(* The library primitives (Argon2id, scrypt, AES-256-CBC) are modelled as  *)
(* free constructors: two outputs are equal iff their inputs are equal.    *)
(***************************************************************************)
EXTENDS Integers, Sequences, FiniteSets, TLC

\* urls, client_side_urls: the two tables; config: the loaded configuration;
\* pc, loc: each worker's position in its handler and the handler's locals,
\* or the last response once the handler has returned; nreq: the number of
\* requests accepted; nworkers: the number of workers the server runs.
\* created, submitted and removed are history: the server-scheme creates
\* that succeeded, the bodies of the client-scheme creates that succeeded
\* and the takedowns that replaced a record.
VARIABLES urls, client_side_urls, config, pc, loc, nreq, nworkers,
          created, submitted, removed

vars == <<urls, client_side_urls, config, pc, loc, nreq, nworkers,
          created, submitted, removed>>

(***************************************************************************)
(* Bounds of the model.                                                    *)
(***************************************************************************)
\* the workers a server may run: one, or two that serve concurrently
Procs == {1, 2}
\* number of requests two concurrent workers accept between them
MaxRequests == 2
\* number of requests a single worker accepts, one after the other
MaxSequential == 3
\* number of distinct values os.urandom is seen to return
NumRandom == 2
\* config['id_generation']['length'], scaled down
IdLength == 1
\* config['id_generation']['allowed_chars'], scaled down
Alphabet == {"a", "b"}

(***************************************************************************)
(* Program constants.                                                      *)
(***************************************************************************)
RetryLimit == 100
BlockSize == 16
KeyLength == 32
IvLength == 16
SaltLength == 16
ABUSE_WARNING_MARKER == "__ABUSE_WARNING__"

(***************************************************************************)
(* Byte strings.  Raw(b) is a concrete byte string, b a sequence of        *)
(* numbers in 0..255; the outputs of the key derivations and of the cipher *)
(* are symbolic byte strings, tagged records as well.                      *)
(***************************************************************************)
Raw(b) == [t |-> "raw", v |-> b]

\* os.urandom(n): the byte strings a call may return
urandom(n) == {Raw([i \in 1..n |-> IF i = 1 THEN b ELSE 0]) : b \in 0..(NumRandom - 1)}

\* the two server secrets of the test configuration, 16 bytes each
SALT1 == Raw([i \in 1..16 |-> 17])
SALT2 == Raw([i \in 1..16 |-> 34])

\* config['argon2']['hash_length']
hash_length == 32

\* len(b) of a byte string
len(b) == IF b.t = "raw" THEN Len(b.v) ELSE b.len

\* a text value held by a literal string
Text(s) == [t |-> "str", s |-> s]

HexDigits == "0123456789abcdef"

Char(s, i) == SubSeq(s, i, i)

\* the printable ASCII characters of code points 32 to 95 and 97 to 126
AsciiLow == " !\"#$%&'()*+,-./0123456789:;<=>?@ABCDEFGHIJKLMNOPQRSTUVWXYZ[\\]^_"

AsciiHigh == "abcdefghijklmnopqrstuvwxyz{|}~"

\* the code point of a character: printable ASCII and the two Latin-1
\* characters the inputs and their decryptions hold
CodePoints ==
    [c \in {Char(AsciiLow, i) : i \in 1..Len(AsciiLow)}
           \cup {Char(AsciiHigh, i) : i \in 1..Len(AsciiHigh)} \cup {"ñ", "±"} |->
        IF c = "ñ" THEN 241
        ELSE IF c = "±" THEN 177
        ELSE IF \E i \in 1..Len(AsciiLow) : Char(AsciiLow, i) = c
        THEN 31 + (CHOOSE i \in 1..Len(AsciiLow) : Char(AsciiLow, i) = c)
        ELSE 96 + (CHOOSE i \in 1..Len(AsciiHigh) : Char(AsciiHigh, i) = c)]

ord(c) == CodePoints[c]

\* the character of a code point; "?" stands for a character that is none
\* of the above
Characters ==
    [cp \in 0..2047 |->
        IF cp \in {CodePoints[c] : c \in DOMAIN CodePoints}
        THEN CHOOSE c \in DOMAIN CodePoints : CodePoints[c] = cp
        ELSE "?"]

chr(cp) == Characters[cp]

\* str.encode(): the UTF-8 bytes of a text below U+0800, one byte for a code
\* point below 128 and two bytes above
encode(s) ==
    LET utf8(cp) == IF cp < 128 THEN <<cp>> ELSE <<192 + (cp \div 64), 128 + (cp % 64)>>
        bytes[i \in 0..Len(s)] ==
            IF i = 0 THEN <<>> ELSE bytes[i - 1] \o utf8(ord(Char(s, i)))
    IN Raw(bytes[Len(s)])

\* bytes.decode(): the text of UTF-8 bytes, or UnicodeDecodeError on a byte
\* that starts no one-byte or two-byte sequence or on a missing or wrong
\* continuation byte
RECURSIVE decode_at(_, _)
decode_at(v, i) ==
    IF i > Len(v) THEN [exc |-> "", text |-> ""]
    ELSE IF v[i] < 128
         THEN LET rest == decode_at(v, i + 1)
              IN IF rest.exc # "" THEN rest
                 ELSE [exc |-> "", text |-> chr(v[i]) \o rest.text]
         ELSE IF v[i] >= 194 /\ v[i] <= 223 /\ i + 1 <= Len(v)
                    /\ v[i + 1] >= 128 /\ v[i + 1] <= 191
              THEN LET rest == decode_at(v, i + 2)
                   IN IF rest.exc # "" THEN rest
                      ELSE [exc |-> "",
                            text |-> chr((v[i] - 192) * 64 + (v[i + 1] - 128)) \o rest.text]
              ELSE [exc |-> "UnicodeDecodeError", msg |-> "invalid byte"]

decode(b) == decode_at(b.v, 1)

\* the value of a hexadecimal digit, -1 for any other character
HexValue(c) ==
    CASE c = "0" -> 0 [] c = "1" -> 1 [] c = "2" -> 2 [] c = "3" -> 3
      [] c = "4" -> 4 [] c = "5" -> 5 [] c = "6" -> 6 [] c = "7" -> 7
      [] c = "8" -> 8 [] c = "9" -> 9
      [] c \in {"a", "A"} -> 10 [] c \in {"b", "B"} -> 11
      [] c \in {"c", "C"} -> 12 [] c \in {"d", "D"} -> 13
      [] c \in {"e", "E"} -> 14 [] c \in {"f", "F"} -> 15
      [] OTHER -> -1

\* bytes.fromhex on the characters of s from position i on: the bytes read,
\* or <<-1>> for the ValueError.  White space is skipped between bytes only.
RECURSIVE fromhex_at(_, _)
fromhex_at(s, i) ==
    IF i > Len(s) THEN <<>>
    ELSE IF Char(s, i) = " " THEN fromhex_at(s, i + 1)
    ELSE IF i + 1 > Len(s) \/ HexValue(Char(s, i)) < 0 \/ HexValue(Char(s, i + 1)) < 0
         THEN <<-1>>
         ELSE LET tail == fromhex_at(s, i + 2)
              IN IF tail = <<-1>> THEN tail
                 ELSE <<16 * HexValue(Char(s, i)) + HexValue(Char(s, i + 1))>> \o tail

\* bytes.hex() of concrete bytes
RECURSIVE hex_of_bytes(_)
hex_of_bytes(b) ==
    IF b = <<>> THEN ""
    ELSE Char(HexDigits, (Head(b) \div 16) + 1) \o Char(HexDigits, (Head(b) % 16) + 1)
         \o hex_of_bytes(Tail(b))

\* a hex() that writes upper-case digits
hex_upper(b) ==
    IF b.t = "raw"
    THEN LET digits == "0123456789ABCDEF"
             text[i \in 0..Len(b.v)] ==
                 IF i = 0 THEN ""
                 ELSE text[i - 1] \o Char(digits, (b.v[i] \div 16) + 1)
                                 \o Char(digits, (b.v[i] % 16) + 1)
         IN Text(text[Len(b.v)])
    ELSE [t |-> "hex", of |-> b]

\* bytes.hex(): lower-case digits; the hex text of a symbolic byte string is
\* kept symbolic
hex(b) == IF b.t = "raw" THEN Text(hex_of_bytes(b.v)) ELSE [t |-> "hex", of |-> b]

\* bytes.fromhex(x): [exc |-> "", bytes |-> b], or the exception raised: a
\* TypeError for a JSON value that is not a string
fromhex(x) ==
    IF x.t = "hex" THEN [exc |-> "", bytes |-> x.of]
    ELSE IF x.t # "str" THEN [exc |-> "TypeError"]
    ELSE LET b == fromhex_at(x.s, 1)
         IN IF b = <<-1>> THEN [exc |-> "ValueError"]
            ELSE [exc |-> "", bytes |-> Raw(b)]

RECURSIVE IdsOfLength(_)
IdsOfLength(n) ==
    IF n = 0 THEN {""}
    ELSE {s \o c : s \in IdsOfLength(n - 1), c \in Alphabet}

\* the values generate_id() may return
generate_id == IdsOfLength(IdLength)

derive_key(id_bytes, salt) ==
    [t |-> "argon2id", secret |-> id_bytes, salt |-> salt, len |-> hash_length]

\* hashlib.scrypt(password, salt, n = 2**17, r = 8, p = 1, dklen = 32)
hashlib_scrypt(password, salt) ==
    [t |-> "scrypt", secret |-> password, salt |-> salt, len |-> 32]

\* the public salt of the client-scheme lookup hash: "tnyr.me_lookup_s"
LOOKUP_SALT ==
    Raw(<<116, 110, 121, 114, 46, 109, 101, 95, 108, 111, 111, 107, 117, 112, 95, 115>>)

hash_id_for_lookup_client(id_str) == hex(hashlib_scrypt(encode(id_str), LOOKUP_SALT))

derive_encryption_key_client(id_str, salt) == hashlib_scrypt(encode(id_str), salt)

\* a padder that adds nothing to data that fills its last block
pkcs7_pad_to_boundary(data) ==
    LET n == (BlockSize - (Len(data.v) % BlockSize)) % BlockSize
    IN Raw(data.v \o [i \in 1..n |-> n])

\* PKCS7(128).padder(): 1..16 bytes of padding, each holding the pad length
pkcs7_pad(data) ==
    LET n == BlockSize - (Len(data.v) % BlockSize)
    IN Raw(data.v \o [i \in 1..n |-> n])

\* PKCS7(128).unpadder(): the data without its padding, or ValueError when
\* the length is no positive multiple of the block size or the last bytes are
\* no padding
pkcs7_unpad(padded) ==
    LET v == padded.v
        n == IF v = <<>> THEN 0 ELSE v[Len(v)]
    IN IF /\ Len(v) > 0 /\ Len(v) % BlockSize = 0
          /\ n >= 1 /\ n <= BlockSize
          /\ \A i \in (Len(v) - n + 1)..Len(v) : v[i] = n
       THEN [exc |-> "", data |-> Raw(SubSeq(v, 1, Len(v) - n))]
       ELSE [exc |-> "ValueError", msg |-> "Invalid padding bytes."]

\* the exclusive or of two bytes
RECURSIVE xor(_, _)
xor(a, b) ==
    IF a = 0 THEN b
    ELSE IF b = 0 THEN a
    ELSE ((a + b) % 2) + 2 * xor(a \div 2, b \div 2)

\* Cipher(AES(key), CBC(iv)).encryptor(): the ciphertext is kept symbolic, as
\* long as the padded data
aes_cbc_encrypt(key, iv, padded) ==
    [t |-> "aes256cbc", key |-> key, iv |-> iv, padded |-> padded, len |-> Len(padded.v)]

\* byte strings of length n that stand for what the cipher may yield under a
\* key the data was not encrypted with: bytes that are no padding, bytes
\* that unpad and do not decode, bytes that unpad and decode
unpredictable(n) ==
    {Raw([i \in 1..n |-> 0]),
     Raw([i \in 1..n |-> IF i = n THEN 1 ELSE 255]),
     Raw([i \in 1..n |-> IF i = n THEN 1 ELSE 120])}

\* Cipher(AES(key), CBC(iv)).decryptor(): the set of results update() and
\* finalize() may have.  Under the key of the encryption the blocks come
\* back, the first one exclusive-ored with the difference of the two IVs;
\* under any other key, or for bytes no encryption returned, the result is
\* unpredictable.  An IV that is not 16 bytes long and data that is no
\* multiple of the block size are refused with ValueError.
aes_cbc_decrypt(key, iv, ciphertext) ==
    IF len(iv) # IvLength
    THEN {[exc |-> "ValueError", msg |-> "Invalid IV size for CBC."]}
    ELSE IF len(ciphertext) % BlockSize # 0
    THEN {[exc |-> "ValueError",
           msg |-> "The length of the provided data is not a multiple of the block length."]}
    ELSE IF ciphertext.t = "aes256cbc" /\ ciphertext.key = key
    THEN IF ciphertext.iv = iv
         THEN {[exc |-> "", padded |-> ciphertext.padded]}
         ELSE LET v == ciphertext.padded.v
              IN {[exc |-> "",
                   padded |-> Raw([i \in 1..Len(v) |->
                                     IF i <= BlockSize
                                     THEN xor(v[i], xor(ciphertext.iv.v[i], iv.v[i]))
                                     ELSE v[i]])]}
    ELSE {[exc |-> "", padded |-> b] : b \in unpredictable(len(ciphertext))}

\* an encrypt_url that encrypts under the all-zero IV and returns the IV drawn
encrypt_url_zero_iv(key, plaintext, iv) ==
    IF len(key) # KeyLength
    THEN [exc |-> "ValueError", msg |-> "Invalid key length"]
    ELSE [exc |-> "",
          iv |-> iv,
          ciphertext |-> aes_cbc_encrypt(key, Raw([i \in 1..IvLength |-> 0]),
                                         pkcs7_pad(encode(plaintext)))]

\* encrypt_url with the IV that os.urandom(16) returned
encrypt_url(key, plaintext, iv) ==
    IF len(key) # KeyLength
    THEN [exc |-> "ValueError", msg |-> "Invalid key length"]
    ELSE [exc |-> "",
          iv |-> iv,
          ciphertext |-> aes_cbc_encrypt(key, iv, pkcs7_pad(encode(plaintext)))]

\* encrypt_url_client: the same cipher as encrypt_url
encrypt_url_client(key, plaintext, iv) ==
    IF len(key) # KeyLength
    THEN [exc |-> "ValueError", msg |-> "Invalid key length"]
    ELSE [exc |-> "",
          iv |-> iv,
          ciphertext |-> aes_cbc_encrypt(key, iv, pkcs7_pad(encode(plaintext)))]

\* a decrypt_url without the check of the key length
decrypt_url_unchecked(key, iv, ciphertext) ==
    {IF c.exc # "" THEN c
     ELSE LET plaintext == pkcs7_unpad(c.padded)
          IN IF plaintext.exc # "" THEN plaintext
             ELSE decode(plaintext.data) :
     c \in aes_cbc_decrypt(key, iv, ciphertext)}

\* decrypt_url: the set of results the call may have, each the text returned
\* or the exception raised by the key check, the cipher, the unpadder or the
\* decoding
decrypt_url(key, iv, ciphertext) ==
    IF len(key) # KeyLength
    THEN {[exc |-> "ValueError", msg |-> "Invalid key length"]}
    ELSE {IF c.exc # "" THEN c
          ELSE LET plaintext == pkcs7_unpad(c.padded)
               IN IF plaintext.exc # "" THEN plaintext
                  ELSE decode(plaintext.data) :
          c \in aes_cbc_decrypt(key, iv, ciphertext)}

(***************************************************************************)
(* The record store.  A table is a set of rows; every statement is atomic  *)
(* and autocommitted reads see committed rows only.  The write statement   *)
(* of a handler and the commit that follows it form one step: sqlite       *)
(* admits one writer at a time.                                            *)
(***************************************************************************)
\* a SELECT that finds no row
select_nothing(table, lookup_hash) == {}

\* SELECT ... FROM table WHERE lookup_hash = ?
select(table, lookup_hash) == {r \in table : r.lookup_hash = lookup_hash}

\* tables whose lookup_hash column is no key
no_primary_key(table, row) == TRUE

\* lookup_hash is the PRIMARY KEY of both tables (schema.sql)
primary_key_free(table, row) == select(table, row.lookup_hash) = {}

\* an INSERT whose row is lost
insert_urls_lost(table, row) == [exc |-> "", table |-> table]

\* INSERT INTO urls (lookup_hash, iv, encrypted_url) VALUES (?, ?, ?)
insert_urls(table, row) ==
    IF primary_key_free(table, row)
    THEN [exc |-> "", table |-> table \cup {row}]
    ELSE [exc |-> "IntegrityError", table |-> table]

\* INSERT OR REPLACE INTO client_side_urls
insert_client_side_urls_replace(table, row) ==
    [exc |-> "",
     table |-> {r \in table : r.lookup_hash # row.lookup_hash} \cup {row}]

\* an INSERT into a client_side_urls that takes any row
insert_client_side_urls_unkeyed(table, row) == [exc |-> "", table |-> table \cup {row}]

\* INSERT INTO client_side_urls (lookup_hash, encryption_salt, iv, encrypted_url)
\* VALUES (?, ?, ?, ?)
insert_client_side_urls(table, row) ==
    IF primary_key_free(table, row)
    THEN [exc |-> "", table |-> table \cup {row}]
    ELSE [exc |-> "IntegrityError", table |-> table]

\* DELETE FROM urls WHERE lookup_hash = ?
update_urls_delete(table, iv, encrypted_url, lookup_hash) ==
    {r \in table : r.lookup_hash # lookup_hash}

\* UPDATE urls SET encrypted_url = ? WHERE lookup_hash = ?: the IV stays
update_urls_keeps_iv(table, iv, encrypted_url, lookup_hash) ==
    {IF r.lookup_hash = lookup_hash
     THEN [r EXCEPT !.encrypted_url = encrypted_url]
     ELSE r : r \in table}

\* UPDATE urls SET iv = ? WHERE lookup_hash = ?, the ciphertext not yet written
update_urls_iv_only(table, iv, encrypted_url, lookup_hash) ==
    {IF r.lookup_hash = lookup_hash THEN [r EXCEPT !.iv = iv] ELSE r : r \in table}

\* an UPDATE that matches no row
update_urls_no_match(table, iv, encrypted_url, lookup_hash) == table

\* UPDATE urls SET iv = ?, encrypted_url = ? WHERE lookup_hash = ?
update_urls(table, iv, encrypted_url, lookup_hash) ==
    {IF r.lookup_hash = lookup_hash
     THEN [r EXCEPT !.iv = iv, !.encrypted_url = encrypted_url]
     ELSE r : r \in table}

\* UPDATE client_side_urls SET iv = ?, encrypted_url = ? WHERE lookup_hash = ?:
\* the salt stays
update_client_side_urls_keeps_salt(table, encryption_salt, iv, encrypted_url, lookup_hash) ==
    {IF r.lookup_hash = lookup_hash
     THEN [r EXCEPT !.iv = iv, !.encrypted_url = encrypted_url]
     ELSE r : r \in table}

\* UPDATE client_side_urls SET encryption_salt = ?, encrypted_url = ?
\* WHERE lookup_hash = ?: the IV stays
update_client_side_urls_keeps_iv(table, encryption_salt, iv, encrypted_url, lookup_hash) ==
    {IF r.lookup_hash = lookup_hash
     THEN [r EXCEPT !.encryption_salt = encryption_salt, !.encrypted_url = encrypted_url]
     ELSE r : r \in table}

\* UPDATE client_side_urls SET encryption_salt = ?, iv = ?, encrypted_url = ?
\* WHERE lookup_hash = ?
update_client_side_urls(table, encryption_salt, iv, encrypted_url, lookup_hash) ==
    {IF r.lookup_hash = lookup_hash
     THEN [r EXCEPT !.encryption_salt = encryption_salt, !.iv = iv,
                    !.encrypted_url = encrypted_url]
     ELSE r : r \in table}

\* a connection block that leaves the table empty
with_get_db_emptied(table, written) == {}

\* "with get_db() as conn": the table when the block is left without an
\* exception is the table as the statements of the block wrote it; a block of
\* SELECT statements wrote nothing
with_get_db(table, written) == written

(***************************************************************************)
(* Requests.                                                               *)
(***************************************************************************)
\* the bodies of POST /shorten-server
ServerRequests ==
    {[url |-> u] : u \in {"https://x", "http://y", "magnet:z", "w", ABUSE_WARNING_MARKER}}
    \cup {[other |-> ""]}

\* the lookup hashes a client submits or asks for
ClientLookupHashes ==
    {hash_id_for_lookup_client(i) : i \in generate_id}
    \cup {Text("abcd1234efgh5678"), Text("")}

ClientMaterial ==
    {[ENCRYTION_SALT |-> Text("0a"), IV |-> Text("0b"), ENCRYPTED_URL |-> Text("0c 0d")],
     [ENCRYTION_SALT |-> Text("1A"), IV |-> Text("1B"), ENCRYPTED_URL |-> Text("1C")]}

BadHex == {Text("zz"), Text("0"), [t |-> "number"]}

WithLookup(h, m) ==
    [LOOKUP_HASH |-> h, ENCRYTION_SALT |-> m.ENCRYTION_SALT, IV |-> m.IV,
     ENCRYPTED_URL |-> m.ENCRYPTED_URL]

SampleRequest ==
    WithLookup(Text("abcd1234efgh5678"),
               [ENCRYTION_SALT |-> Text("11"), IV |-> Text("22"), ENCRYPTED_URL |-> Text("33")])

\* the bodies of POST /shorten: well-formed ones, ones with a field that is
\* no hex string, ones with a field missing
ClientRequests ==
    {WithLookup(h, m) : h \in ClientLookupHashes, m \in ClientMaterial}
    \cup {[SampleRequest EXCEPT ![f] = x] :
            f \in {"ENCRYTION_SALT", "IV", "ENCRYPTED_URL"}, x \in BadHex}
    \cup {[f \in (DOMAIN SampleRequest) \ {g} |-> SampleRequest[f]] :
            g \in DOMAIN SampleRequest}

\* the bodies of POST /delete-url
DeleteRequests ==
    {[id |-> i, deletion_token |-> t] : i \in generate_id, t \in {"tok", "bad"}}
    \cup {[id |-> "a", deletion_token |-> ""], [id |-> "a", deletion_token |-> "TOK"],
          [id |-> "a"], [deletion_token |-> "tok"]}

\* the lookup_hash query parameter of GET /get-encrypted-url, None when absent
FetchArgs == ClientLookupHashes \cup {Text(""), [t |-> "None"]}

StartsWith(s, prefix) ==
    Len(s) >= Len(prefix) /\ SubSeq(s, 1, Len(prefix)) = prefix

\* a shorten_url_server that stores the URL as submitted
normalize_url_as_given(url) == url

\* the scheme default of shorten_url_server
normalize_url(url) ==
    IF ~(StartsWith(url, "https://") \/ StartsWith(url, "http://")
         \/ StartsWith(url, "magnet:"))
    THEN "http://" \o url
    ELSE url

\* the numbers of colliding identifiers generate_id returns in a row
Collisions == {0, 1, RetryLimit - 1, RetryLimit}

\* the runs of identifiers told apart: no first identifier without a
\* collision, no other identifier after RetryLimit collisions
Runs ==
    {r \in [k : Collisions, first : generate_id, then : generate_id] :
        IF r.k \in {0, RetryLimit} THEN r.first = r.then ELSE r.first # r.then}

\* what the i-th call of generate_id returns during a request with run r:
\* r.k times one identifier, then another
generated_id(r, i) == IF i <= r.k THEN r.first ELSE r.then

\* the identifiers the first n calls of generate_id returned, in order
generated_ids(r, n) == [i \in 1..n |-> generated_id(r, i)]

\* for _ in range(99): a loop one iteration short
allocation_loop_short(table, r) ==
    LET first_hash == hex(derive_key(encode(r.first), SALT1))
        then_hash == hex(derive_key(encode(r.then), SALT1))
        first_taken == select(table, first_hash) # {}
        then_taken == select(table, then_hash) # {}
        lookup_hash(i) == IF i <= r.k THEN first_hash ELSE then_hash
        taken(i) == IF i <= r.k THEN first_taken ELSE then_taken
    IN IF \A i \in 1..(RetryLimit - 1) : taken(i)
       THEN [found |-> FALSE, attempts |-> RetryLimit - 1]
       ELSE LET last == CHOOSE i \in 1..(RetryLimit - 1) :
                            ~taken(i) /\ \A j \in 1..(i - 1) : taken(j)
                id == generated_id(r, last)
            IN [found |-> TRUE, attempts |-> last, id |-> id,
                id_bytes |-> encode(id), lookup_hash |-> lookup_hash(last)]

\* a loop that takes its first identifier without a probe
allocation_loop_unprobed(table, r) ==
    LET id == generated_id(r, 1)
    IN [found |-> TRUE, attempts |-> 1, id |-> id, id_bytes |-> encode(id),
        lookup_hash |-> hex(derive_key(encode(id), SALT1))]

\* for _ in range(100): ... else: with the identifiers of run r.  The loop
\* leaves at the first iteration whose probe finds no row, and falls into its
\* else branch after RetryLimit iterations that each found one.
allocation_loop(table, r) ==
    LET first_hash == hex(derive_key(encode(r.first), SALT1))
        then_hash == hex(derive_key(encode(r.then), SALT1))
        first_taken == select(table, first_hash) # {}
        then_taken == select(table, then_hash) # {}
        lookup_hash(i) == IF i <= r.k THEN first_hash ELSE then_hash
        taken(i) == IF i <= r.k THEN first_taken ELSE then_taken
    IN IF \A i \in 1..RetryLimit : taken(i)
       THEN [found |-> FALSE, attempts |-> RetryLimit]
       ELSE LET last == CHOOSE i \in 1..RetryLimit :
                            ~taken(i) /\ \A j \in 1..(i - 1) : taken(j)
                id == generated_id(r, last)
            IN [found |-> TRUE, attempts |-> last, id |-> id,
                id_bytes |-> encode(id), lookup_hash |-> lookup_hash(last)]

Idle == [op |-> "idle"]

Init ==
    /\ urls = {}
    /\ client_side_urls = {}
    /\ config = [deletion_token |-> "tok"]
    /\ pc = [p \in Procs |-> "idle"]
    /\ loc = [p \in Procs |-> Idle]
    /\ nreq = 0
    /\ nworkers \in Procs
    /\ created = {}
    /\ submitted = {}
    /\ removed = {}

\* a worker the server runs takes a request
Accept(p) ==
    /\ p \in 1..nworkers
    /\ pc[p] = "idle"
    /\ nreq < (IF nworkers = 1 THEN MaxSequential ELSE MaxRequests)
    /\ nreq' = nreq + 1

\* the handler returns: the worker is free again, and loc keeps the response,
\* numbered n after the request, until the worker takes its next request
Respond(p, response) ==
    /\ pc' = [pc EXCEPT ![p] = "idle"]
    /\ loc' = [loc EXCEPT ![p] =
                 response @@ [n |-> IF pc[p] = "idle" THEN nreq + 1 ELSE nreq]]

\* POST /shorten-server up to the INSERT: validation, scheme default, the
\* allocation loop, and on a free lookup hash the key and the encryption.
\* The probes of the loop are SELECTs that find a row; no statement of the
\* program deletes a row, so they find it at the time of the last probe too.
shorten_url_server_allocate(p) ==
    /\ Accept(p)
    /\ \E r \in Runs :
         LET a == allocation_loop(urls, r)
         IN \E data \in ServerRequests, iv \in urandom(IvLength) :
              IF "url" \notin DOMAIN data
              THEN Respond(p, [op |-> "shorten_server", status |-> 400,
                               body |-> [error |-> "Missing URL"]])
              ELSE LET url == normalize_url(data.url)
                   IN IF ~a.found
                      THEN Respond(p, [op |-> "shorten_server", status |-> 500,
                                       body |-> [error |-> "Failed to generate unique ID"],
                                       generated |-> generated_ids(r, a.attempts)])
                      ELSE LET encryption_key == derive_key(a.id_bytes, SALT2)
                               enc == encrypt_url(encryption_key, url, iv)
                           IN IF enc.exc # ""
                              THEN Respond(p, [op |-> "shorten_server", status |-> 500,
                                               body |-> [unhandled |-> enc.exc]])
                              ELSE /\ pc' = [pc EXCEPT ![p] = "server_insert"]
                                   /\ loc' = [loc EXCEPT ![p] =
                                        [op |-> "shorten_server", given |-> data.url,
                                         id |-> a.id,
                                         generated |-> generated_ids(r, a.attempts),
                                         row |-> [lookup_hash |-> a.lookup_hash,
                                                  iv |-> enc.iv,
                                                  encrypted_url |-> enc.ciphertext]]]
    /\ UNCHANGED <<urls, client_side_urls, config, nworkers, created, removed, submitted>>

\* the INSERT and the commit of shorten_url_server; the IntegrityError of a
\* taken primary key is caught nowhere and ends the request
shorten_url_server_insert(p) ==
    /\ pc[p] = "server_insert"
    /\ LET ins == insert_urls(urls, loc[p].row)
       IN IF ins.exc = ""
          THEN /\ urls' = ins.table
               /\ created' = created \cup {[id |-> loc[p].id, given |-> loc[p].given,
                                               row |-> loc[p].row]}
               /\ Respond(p, [op |-> "shorten_server", status |-> 201,
                              body |-> [id |-> loc[p].id],
                              attempts |-> Len(loc[p].generated)])
          ELSE /\ UNCHANGED <<urls, created>>
               /\ Respond(p, [op |-> "shorten_server", status |-> 500,
                              body |-> [unhandled |-> ins.exc], id |-> loc[p].id])
    /\ UNCHANGED <<client_side_urls, config, nworkers, nreq, removed, submitted>>

required_fields == <<"LOOKUP_HASH", "ENCRYTION_SALT", "IV", "ENCRYPTED_URL">>

\* POST /shorten up to the INSERT: validation, hex decoding, existence check
shorten_url_client_check(p) ==
    /\ Accept(p)
    /\ \E data \in ClientRequests :
         LET missing_fields ==
                 SelectSeq(required_fields, LAMBDA f : f \notin DOMAIN data)
         IN IF missing_fields # <<>>
            THEN Respond(p, [op |-> "shorten_client", status |-> 400,
                             body |-> [error |-> "Missing fields", fields |-> missing_fields],
                             data |-> data])
            ELSE LET lookup_hash == data.LOOKUP_HASH
                     encryption_salt == fromhex(data.ENCRYTION_SALT)
                     iv == fromhex(data.IV)
                     encrypted_url == fromhex(data.ENCRYPTED_URL)
                 IN IF encryption_salt.exc # "" \/ iv.exc # "" \/ encrypted_url.exc # ""
                    THEN Respond(p, [op |-> "shorten_client", status |-> 400,
                                     body |-> [error |-> "Invalid hex format for salt, IV, or encrypted URL"],
                                     data |-> data])
                    ELSE IF select(client_side_urls, lookup_hash) # {}
                    THEN Respond(p, [op |-> "shorten_client", status |-> 409,
                                     body |-> [error |-> "Lookup hash already exists"],
                                     data |-> data])
                    ELSE /\ pc' = [pc EXCEPT ![p] = "client_insert"]
                         /\ loc' = [loc EXCEPT ![p] =
                                      [op |-> "shorten_client", data |-> data,
                                       row |-> [lookup_hash |-> lookup_hash,
                                                encryption_salt |-> encryption_salt.bytes,
                                                iv |-> iv.bytes,
                                                encrypted_url |-> encrypted_url.bytes]]]
    /\ UNCHANGED <<urls, client_side_urls, config, nworkers, created, removed, submitted>>

\* the INSERT and the commit of shorten_url_client
shorten_url_client_insert(p) ==
    /\ pc[p] = "client_insert"
    /\ LET ins == insert_client_side_urls(client_side_urls, loc[p].row)
       IN IF ins.exc = ""
          THEN /\ client_side_urls' = ins.table
               /\ submitted' = submitted \cup {loc[p].data}
               /\ Respond(p, [op |-> "shorten_client", status |-> 201,
                              body |-> [message |-> "URL shortened successfully"],
                              data |-> loc[p].data])
          ELSE /\ UNCHANGED <<client_side_urls, submitted>>
               /\ Respond(p, [op |-> "shorten_client", status |-> 500,
                              body |-> [unhandled |-> ins.exc], data |-> loc[p].data])
    /\ UNCHANGED <<urls, config, nworkers, nreq, created, removed>>

\* GET /get-encrypted-url
get_encrypted_url(p) ==
    /\ Accept(p)
    /\ \E lookup_hash \in FetchArgs :
         IF lookup_hash \in {[t |-> "None"], Text("")}
         THEN /\ Respond(p, [op |-> "fetch", status |-> 400,
                             body |-> [error |-> "Missing lookup_hash parameter"],
                             lookup_hash |-> lookup_hash])
              /\ UNCHANGED client_side_urls
         ELSE LET rows == select(client_side_urls, lookup_hash)
              IN /\ client_side_urls' = with_get_db(client_side_urls, client_side_urls)
                 /\ IF rows = {}
                    THEN Respond(p, [op |-> "fetch", status |-> 404,
                                     body |-> [error |-> "Link not found"],
                                     lookup_hash |-> lookup_hash])
                    ELSE \E row \in rows :
                           Respond(p, [op |-> "fetch", status |-> 200,
                                       body |-> [ENCRYTION_SALT |-> hex(row.encryption_salt),
                                                 IV |-> hex(row.iv),
                                                 ENCRYPTED_URL |-> hex(row.encrypted_url)],
                                       lookup_hash |-> lookup_hash])
    /\ UNCHANGED <<urls, config, nworkers, created, removed, submitted>>

\* a handler that tells the exception in its answer
decryption_failed_with_cause(e) == [error |-> "Decryption failed", cause |-> e.exc]

\* except Exception as e: the body of the answer to exception e
decryption_failed(e) == [error |-> "Decryption failed"]

\* a lookup that falls back to the client-scheme table
redirect_url_rows_both(id) ==
    LET rows == select(urls, hex(derive_key(encode(id), SALT1)))
    IN IF rows # {} THEN rows
       ELSE select(client_side_urls, hash_id_for_lookup_client(id))

\* the rows redirect_url fetches for id: SELECT iv, encrypted_url FROM urls
\* WHERE lookup_hash = ?, with the lookup hash derived from id and SALT1
redirect_url_rows(id) == select(urls, hex(derive_key(encode(id), SALT1)))

\* GET /<id>
redirect_url(p) ==
    /\ Accept(p)
    /\ \E id \in generate_id :
         LET id_bytes == encode(id)
             rows == redirect_url_rows(id)
         IN IF rows = {}
            THEN Respond(p, [op |-> "resolve", id |-> id, status |-> 404,
                             body |-> [error |-> "Link not found"]])
            ELSE \E row \in rows :
                   LET decryption_key == derive_key(id_bytes, SALT2)
                   IN \E d \in decrypt_url(decryption_key, row.iv, row.encrypted_url) :
                        IF d.exc # ""
                        THEN Respond(p, [op |-> "resolve", id |-> id, status |-> 500,
                                         body |-> decryption_failed(d)])
                        ELSE IF d.text = ABUSE_WARNING_MARKER
                        THEN Respond(p, [op |-> "resolve", id |-> id, status |-> 200,
                                         body |-> [page |-> "Link Removed - Abuse Detected"]])
                        ELSE Respond(p, [op |-> "resolve", id |-> id, status |-> 302,
                                         body |-> [location |-> d.text]])
    /\ urls' = with_get_db(urls, urls)
    /\ UNCHANGED <<client_side_urls, config, nworkers, created, removed, submitted>>

\* a comparison that takes a prefix of the configured token for the token
token_differs_beyond_prefix(given, deletion_token) == ~StartsWith(deletion_token, given)

\* data['deletion_token'] != deletion_token
token_differs(given, deletion_token) == given # deletion_token

\* a delete_url that answers success whatever it found
delete_url_response_found(updated) ==
    [op |-> "takedown", status |-> 200,
     body |-> [message |-> "URL replaced with abuse warning successfully"]]

\* the response of delete_url once the connection block is left
delete_url_response(updated) ==
    IF updated
    THEN [op |-> "takedown", status |-> 200,
          body |-> [message |-> "URL replaced with abuse warning successfully"]]
    ELSE [op |-> "takedown", status |-> 404, body |-> [error |-> "Link not found"]]

\* the client namespace is tried whatever the server namespace gave
not_updated_ignored(updated) == TRUE

\* "if not updated": the client namespace is tried only when the server
\* namespace held no row for the identifier
not_updated(updated) == ~updated

\* a lookup of the configuration that falls back to the token "tok"
config_get_fallback(conf, key, default) ==
    IF key \in DOMAIN conf THEN conf[key] ELSE "tok"

\* config.get(key, default)
config_get(conf, key, default) ==
    IF key \in DOMAIN conf THEN conf[key] ELSE default

\* POST /delete-url up to its first write: the token checks and the probe of
\* the server namespace; on a hit the marker is encrypted for the UPDATE
delete_url_probe_server(p) ==
    /\ Accept(p)
    /\ \E data \in DeleteRequests, iv \in urandom(IvLength) :
         LET deletion_token == config_get(config, "deletion_token", "")
         IN IF deletion_token = ""
            THEN Respond(p, [op |-> "takedown", status |-> 403,
                             body |-> [error |-> "URL deletion is disabled"], data |-> data])
            ELSE IF "id" \notin DOMAIN data \/ "deletion_token" \notin DOMAIN data
            THEN Respond(p, [op |-> "takedown", status |-> 400,
                             body |-> [error |-> "Missing id or deletion_token"], data |-> data])
            ELSE IF token_differs(data.deletion_token, deletion_token)
            THEN Respond(p, [op |-> "takedown", status |-> 403,
                             body |-> [error |-> "Invalid deletion token"], data |-> data])
            ELSE LET link_id == data.id
                     id_bytes == encode(link_id)
                     lookup_hash_old == hex(derive_key(id_bytes, SALT1))
                 IN IF select(urls, lookup_hash_old) # {}
                    THEN LET encryption_key == derive_key(id_bytes, SALT2)
                             enc == encrypt_url(encryption_key, ABUSE_WARNING_MARKER, iv)
                         IN IF enc.exc # ""
                            THEN Respond(p, [op |-> "takedown", status |-> 500,
                                             body |-> [unhandled |-> enc.exc]])
                            ELSE /\ pc' = [pc EXCEPT ![p] = "delete_update_server"]
                                 /\ loc' = [loc EXCEPT ![p] =
                                      [op |-> "takedown", link_id |-> link_id,
                                       deletion_token |-> data.deletion_token,
                                       lookup_hash |-> lookup_hash_old,
                                       iv |-> enc.iv, encrypted_warning |-> enc.ciphertext]]
                    ELSE IF not_updated(FALSE)
                    THEN /\ pc' = [pc EXCEPT ![p] = "delete_probe_client"]
                         /\ loc' = [loc EXCEPT ![p] =
                                      [op |-> "takedown", link_id |-> link_id,
                                       deletion_token |-> data.deletion_token]]
                    ELSE Respond(p, delete_url_response(FALSE))
    /\ UNCHANGED <<urls, client_side_urls, config, nworkers, created, removed, submitted>>

\* the UPDATE of urls and the commit; updated is then true, so the client
\* namespace is skipped and the handler answers
delete_url_update_server(p) ==
    /\ pc[p] = "delete_update_server"
    /\ urls' = update_urls(urls, loc[p].iv, loc[p].encrypted_warning, loc[p].lookup_hash)
    /\ removed' = removed \cup {<<"server", loc[p].link_id>>}
    /\ IF not_updated(TRUE)
       THEN /\ pc' = [pc EXCEPT ![p] = "delete_probe_client"]
            /\ loc' = [loc EXCEPT ![p] =
                         [op |-> "takedown", link_id |-> loc[p].link_id,
                          deletion_token |-> loc[p].deletion_token]]
       ELSE Respond(p, delete_url_response(TRUE))
    /\ UNCHANGED <<client_side_urls, config, nworkers, nreq, created, submitted>>

\* the probe of the client namespace, made when the server probe found no
\* row; on a hit a new salt, the key and the encryption of the marker
delete_url_probe_client(p) ==
    /\ pc[p] = "delete_probe_client"
    /\ \E new_encryption_salt \in urandom(SaltLength), iv \in urandom(IvLength) :
         LET link_id == loc[p].link_id
             lookup_hash_new == hash_id_for_lookup_client(link_id)
         IN IF select(client_side_urls, lookup_hash_new) # {}
            THEN LET encryption_key ==
                         derive_encryption_key_client(link_id, new_encryption_salt)
                     enc == encrypt_url_client(encryption_key, ABUSE_WARNING_MARKER, iv)
                 IN IF enc.exc # ""
                    THEN Respond(p, [op |-> "takedown", status |-> 500,
                                     body |-> [unhandled |-> enc.exc]])
                    ELSE /\ pc' = [pc EXCEPT ![p] = "delete_update_client"]
                         /\ loc' = [loc EXCEPT ![p] =
                              [op |-> "takedown", link_id |-> link_id,
                               deletion_token |-> loc[p].deletion_token,
                               lookup_hash |-> lookup_hash_new,
                               new_encryption_salt |-> new_encryption_salt,
                               iv |-> enc.iv, encrypted_warning |-> enc.ciphertext]]
            ELSE Respond(p, delete_url_response(FALSE))
    /\ UNCHANGED <<urls, client_side_urls, config, nworkers, nreq, created, removed, submitted>>

\* the UPDATE of client_side_urls and the commit
delete_url_update_client(p) ==
    /\ pc[p] = "delete_update_client"
    /\ client_side_urls' =
         update_client_side_urls(client_side_urls, loc[p].new_encryption_salt,
                                 loc[p].iv, loc[p].encrypted_warning, loc[p].lookup_hash)
    /\ removed' = removed \cup {<<"client", loc[p].link_id>>}
    /\ Respond(p, delete_url_response(TRUE))
    /\ UNCHANGED <<urls, config, nworkers, nreq, created, submitted>>

Next ==
    \E p \in Procs :
        \/ shorten_url_server_allocate(p)
        \/ shorten_url_server_insert(p)
        \/ shorten_url_client_check(p)
        \/ shorten_url_client_insert(p)
        \/ get_encrypted_url(p)
        \/ redirect_url(p)
        \/ delete_url_probe_server(p)
        \/ delete_url_update_server(p)
        \/ delete_url_probe_client(p)
        \/ delete_url_update_client(p)

Spec == Init /\ [][Next]_vars

(***************************************************************************)
(* Properties.                                                             *)
(***************************************************************************)
\* worker p holds the response of a request of kind op
Responded(p, op) ==
    pc[p] = "idle" /\ loc[p].op = op /\ "status" \in DOMAIN loc[p]

\* worker p returns from its handler in this step
Returns(p) == pc'[p] = "idle" /\ loc'[p] # loc[p]

\* the lookup keys of the two schemes, from the primitives
ServerLookupKey(id) == hex(derive_key(encode(id), SALT1))

ClientLookupKey(id) == hex(hashlib_scrypt(encode(id), LOOKUP_SALT))

LookupKeys(table) == {r.lookup_hash : r \in table}

ExhaustedBody == [error |-> "Failed to generate unique ID"]

RejectedBody == [unhandled |-> "IntegrityError"]

\* C1, first half: a namespace holds at most one record per lookup key
UniqueLookupKeys(table) ==
    \A r1, r2 \in table : r1.lookup_hash = r2.lookup_hash => r1 = r2

\* C1, second half: an INSERT on a lookup key that exists fails and leaves
\* the namespace as it was, and the allocation loop goes on to its next
\* identifier instead of settling on a key that exists
C1_InsertKeepsExisting ==
    \A p \in Procs :
        /\ (pc[p] = "server_insert" /\ Returns(p)
              /\ loc[p].row.lookup_hash \in LookupKeys(urls))
           => (urls' = urls /\ loc'[p].status # 201)
        /\ (pc[p] = "client_insert" /\ Returns(p)
              /\ loc[p].row.lookup_hash \in LookupKeys(client_side_urls))
           => (client_side_urls' = client_side_urls /\ loc'[p].status # 201)
        /\ (pc[p] = "idle" /\ pc'[p] = "server_insert")
           => (loc'[p].row.lookup_hash \notin LookupKeys(urls) /\ urls' = urls)
        /\ (pc[p] = "idle" /\ pc'[p] = "client_insert")
           => (loc'[p].row.lookup_hash \notin LookupKeys(client_side_urls)
               /\ client_side_urls' = client_side_urls)

\* C1: in every reachable state each namespace holds at most one record per
\* lookup key, and an insertion attempted on a lookup key that exists fails
\* or is retried and never overwrites the stored record
C1_OneRecordPerLookupKey ==
    /\ [](UniqueLookupKeys(urls) /\ UniqueLookupKeys(client_side_urls))
    /\ [][C1_InsertKeepsExisting]_vars

\* an INSERT was attempted on a key that was taken meanwhile and was rejected,
\* in either namespace, and the record stored first is still the only one
C1_Witness ==
    \E p \in Procs :
        /\ pc[p] = "idle" /\ loc[p].op \in {"shorten_server", "shorten_client"}
        /\ "status" \in DOMAIN loc[p] /\ loc[p].body = RejectedBody
        /\ urls \cup client_side_urls # {}

\* the redirect target the contract names for a submitted URL
C2_Target(u) ==
    IF StartsWith(u, "https://") \/ StartsWith(u, "http://") \/ StartsWith(u, "magnet:")
    THEN u
    ELSE "http://" \o u

C2_ResolveStep ==
    \A p \in Procs :
        (pc[p] = "idle" /\ Returns(p) /\ loc'[p].op = "resolve")
        => \A c \in created :
             (c.id = loc'[p].id /\ <<"server", c.id>> \notin removed)
             => (loc'[p].status = 302
                 /\ loc'[p].body = [location |-> C2_Target(c.given)])

\* C2: once a server-scheme create of u has succeeded with identifier id,
\* every later resolve of id, as long as id was not taken down, answers 302
\* with the normalized u: u itself when it starts with https://, http:// or
\* magnet:, else "http://" followed by u
C2_ResolveRedirectsToNormalized == [][C2_ResolveStep]_vars

\* the resolve of a created identifier, the third request the server took,
\* redirected to a URL that got the scheme
C2_Witness ==
    \E p \in Procs :
        /\ Responded(p, "resolve") /\ loc[p].status = 302 /\ loc[p].n = 3
        /\ \E c \in created : c.id = loc[p].id /\ c.given = "w"
        /\ loc[p].body = [location |-> "http://w"]

\* the creates that were at the INSERT under the lookup key of id
C3_Finished(p, id) ==
    /\ Responded(p, "shorten_server")
    /\ \/ loc[p].status = 201 /\ loc[p].body = [id |-> id]
       \/ loc[p].body = RejectedBody /\ loc[p].id = id

\* C3: of two concurrent server-scheme creates that both passed the
\* existence check for the same lookup key at most one insertion succeeds,
\* and the namespace ends with exactly one record for the key, with the IV
\* and the ciphertext of the create that won
C3_RaceHasOneWinner ==
    \A p, q \in Procs : \A id \in generate_id :
        (p # q /\ C3_Finished(p, id) /\ C3_Finished(q, id)
           /\ <<"server", id>> \notin removed)
        => /\ ~(loc[p].status = 201 /\ loc[q].status = 201)
           /\ \E c \in created :
                /\ c.id = id
                /\ select(urls, ServerLookupKey(id)) = {c.row}
                /\ \E w \in {p, q} : loc[w].status = 201

\* both creates were at the INSERT for one key: one got 201, one was rejected
C3_Witness ==
    \E p, q \in Procs : \E id \in generate_id :
        /\ p # q /\ C3_Finished(p, id) /\ C3_Finished(q, id)
        /\ loc[p].status = 201 /\ loc[q].body = RejectedBody
        /\ Cardinality(select(urls, ServerLookupKey(id))) = 1

\* C4: the create whose insertion is rejected in the race surfaces a
\* retryable collision: it reports the allocation failure (a retry with a
\* fresh identifier would have no rejected insertion to show)
C4_LoserSurfacesCollision ==
    \A p \in Procs :
        (Responded(p, "shorten_server") /\ loc[p].status # 201 /\ "id" \in DOMAIN loc[p])
        => loc[p].body = ExhaustedBody

C5_AllocationStep ==
    \A p \in Procs :
        (pc[p] = "idle" /\ pc'[p] \in {"idle", "server_insert"} /\ loc'[p] # loc[p]
           /\ loc'[p].op = "shorten_server" /\ "generated" \in DOMAIN loc'[p])
        => LET l == loc'[p]
               attempts == Len(l.generated)
               exhausted == pc'[p] = "idle" /\ l.status = 500 /\ l.body = ExhaustedBody
               all_exist == \A i \in 1..attempts :
                                ServerLookupKey(l.generated[i]) \in LookupKeys(urls)
           IN /\ attempts \in 1..100
              /\ (attempts = 100 /\ all_exist) => exhausted
              /\ exhausted => (attempts = 100 /\ all_exist)
              /\ attempts < 100 => ~all_exist

\* C5: when the existence check finds every generated identifier, a
\* server-scheme create makes exactly 100 generate-derive-probe attempts and
\* then ends with "Failed to generate unique ID"; no create makes more than
\* 100 attempts, and none reports exhaustion before
C5_BudgetThenExhaustion == [][C5_AllocationStep]_vars

\* a create ran out of its budget
C5_Witness ==
    \E p \in Procs :
        /\ Responded(p, "shorten_server") /\ loc[p].status = 500
        /\ loc[p].body = ExhaustedBody /\ Len(loc[p].generated) = 100

C6_Step ==
    \A p \in Procs :
        /\ (pc[p] = "idle" /\ pc'[p] = "server_insert")
           => LET l == loc'[p]
              IN /\ l.id = l.generated[Len(l.generated)]
                 /\ ServerLookupKey(l.id) \notin LookupKeys(urls)
                 /\ \A j \in 1..(Len(l.generated) - 1) :
                        ServerLookupKey(l.generated[j]) \in LookupKeys(urls)
                 /\ l.row.lookup_hash = ServerLookupKey(l.id)
        /\ (pc[p] = "server_insert" /\ Returns(p) /\ loc'[p].status = 201)
           => /\ loc'[p].body = [id |-> loc[p].id]
              /\ loc[p].row.lookup_hash = ServerLookupKey(loc[p].id)
              /\ loc[p].row \notin urls
              /\ urls' = urls \cup {loc[p].row}

\* C6: a server-scheme create settles on the first generated identifier
\* whose lookup key is absent from urls, every earlier candidate's key being
\* stored, returns that identifier and stores the new record under exactly
\* its lookup key
C6_FirstFreeIdentifier == [][C6_Step]_vars

\* a create skipped a stored candidate and returned a later identifier
C6_Witness ==
    \E p \in Procs :
        /\ Responded(p, "shorten_server") /\ loc[p].status = 201
        /\ loc[p].attempts > 1
        /\ ServerLookupKey(loc[p].body.id) \in LookupKeys(urls)

C7_Step ==
    /\ LookupKeys(urls) \subseteq LookupKeys(urls')
    /\ LookupKeys(client_side_urls) \subseteq LookupKeys(client_side_urls')
    /\ \A r \in urls \ urls' :
         \E p \in Procs : /\ pc[p] = "delete_update_server" /\ Returns(p)
                          /\ loc[p].lookup_hash = r.lookup_hash
    /\ \A r \in client_side_urls \ client_side_urls' :
         \E p \in Procs : /\ pc[p] = "delete_update_client" /\ Returns(p)
                          /\ loc[p].lookup_hash = r.lookup_hash

\* C7: no step removes a record or changes a lookup key: the lookup keys of
\* each namespace only grow, and a stored record changes only in the UPDATE
\* of a takedown of its own lookup key
C7_RecordsOnlyReplacedByTakedown == [][C7_Step]_vars

\* a takedown replaced the material of a record
C7_Witness ==
    \E p \in Procs :
        /\ Responded(p, "takedown") /\ loc[p].status = 200
        /\ removed # {}
        /\ urls \cup client_side_urls # {}

C8_Step ==
    \A p \in Procs :
        /\ (pc[p] = "idle" /\ pc'[p] = "delete_probe_client")
           => ServerLookupKey(loc'[p].link_id) \notin LookupKeys(urls)
        /\ (pc[p] = "idle" /\ pc'[p] = "delete_update_server")
           => ServerLookupKey(loc'[p].link_id) \in LookupKeys(urls)
        /\ (pc[p] = "delete_update_server" /\ Returns(p))
           => LET id == loc[p].link_id
                  k == ServerLookupKey(id)
              IN /\ loc'[p].status = 200
                 /\ LookupKeys(urls') = LookupKeys(urls)
                 /\ {r \in urls' : r.lookup_hash # k} = {r \in urls : r.lookup_hash # k}
                 /\ \E r \in urls' :
                      /\ select(urls', k) = {r}
                      /\ r.iv \in urandom(16)
                      /\ decrypt_url(derive_key(encode(id), SALT2), r.iv, r.encrypted_url)
                           = {[exc |-> "", text |-> "__ABUSE_WARNING__"]}

\* C8: a takedown with the valid token of an identifier whose server lookup
\* key is stored goes to the UPDATE of urls, after which the record of that
\* key, and no other, holds a fresh IV and a ciphertext that decrypts under
\* the key derived from the identifier and SALT2 to the marker; the lookup
\* keys are as before and the answer is 200
C8_ServerTakedownOverwrites == [][C8_Step]_vars

\* a created record was taken down and now decrypts to the marker
C8_Witness ==
    \E p \in Procs : \E c \in created :
        /\ Responded(p, "takedown") /\ loc[p].status = 200
        /\ <<"server", c.id>> \in removed
        /\ select(urls, ServerLookupKey(c.id)) # {c.row}
        /\ select(urls, ServerLookupKey(c.id)) # {}

C9_Step ==
    \A p \in Procs :
        /\ (pc[p] = "idle" /\ pc'[p] = "delete_probe_client")
           => /\ select(urls, ServerLookupKey(loc'[p].link_id)) = {}
              /\ urls' = urls /\ client_side_urls' = client_side_urls
        /\ (pc[p] = "delete_probe_client" /\ loc'[p] # loc[p]
              /\ ClientLookupKey(loc[p].link_id) \in LookupKeys(client_side_urls))
           => /\ pc'[p] = "delete_update_client"
              /\ loc'[p].link_id = loc[p].link_id
              /\ loc'[p].lookup_hash = ClientLookupKey(loc[p].link_id)
              /\ loc'[p].new_encryption_salt \in urandom(16)
              /\ urls' = urls /\ client_side_urls' = client_side_urls
        /\ (pc[p] = "delete_update_client" /\ Returns(p))
           => LET k == ClientLookupKey(loc[p].link_id)
              IN /\ loc'[p].status = 200
                 /\ urls' = urls
                 /\ {r \in client_side_urls' : r.lookup_hash # k}
                      = {r \in client_side_urls : r.lookup_hash # k}
                 /\ select(client_side_urls', k) =
                      {[lookup_hash |-> k,
                        encryption_salt |-> loc[p].new_encryption_salt,
                        iv |-> loc[p].iv,
                        encrypted_url |-> loc[p].encrypted_warning]}
                 /\ decrypt_url(hashlib_scrypt(encode(loc[p].link_id),
                                               loc[p].new_encryption_salt),
                                loc[p].iv, loc[p].encrypted_warning)
                      = {[exc |-> "", text |-> "__ABUSE_WARNING__"]}

C10_Step ==
    \A p \in Procs :
        /\ (pc[p] = "idle" /\ pc'[p] = "delete_probe_client")
           => (urls' = urls /\ client_side_urls' = client_side_urls)
        /\ (pc[p] = "delete_probe_client" /\ loc'[p] # loc[p]
              /\ ServerLookupKey(loc[p].link_id) \notin LookupKeys(urls)
              /\ ClientLookupKey(loc[p].link_id) \notin LookupKeys(client_side_urls))
           => /\ Returns(p)
              /\ loc'[p].status = 404
              /\ loc'[p].body = [error |-> "Link not found"]
              /\ urls' = urls /\ client_side_urls' = client_side_urls

C11_Step ==
    \A p \in Procs :
        /\ (pc[p] = "idle" /\ Returns(p) /\ loc'[p].op = "takedown"
              /\ "data" \in DOMAIN loc'[p]
              /\ {"id", "deletion_token"} \subseteq DOMAIN loc'[p].data
              /\ loc'[p].data.deletion_token # config.deletion_token)
           => /\ loc'[p].status = 403
              /\ urls' = urls /\ client_side_urls' = client_side_urls
        /\ (pc'[p] \in {"delete_update_server", "delete_probe_client", "delete_update_client"})
           => loc'[p].deletion_token = config.deletion_token
        /\ (loc'[p] # loc[p] /\ loc'[p].op = "takedown"
              /\ (urls' # urls \/ client_side_urls' # client_side_urls))
           => /\ pc[p] \in {"delete_update_server", "delete_update_client"}
              /\ loc[p].deletion_token = config.deletion_token

\* C11: a takedown changes a record only when its deletion_token is exactly
\* the configured token: a request with any other token is answered
\* 403 and leaves both namespaces as they were, whether or not its
\* identifier is stored; only a request that carried it gets as far as a
\* probe or an UPDATE
C11_TakedownNeedsExactToken == [][C11_Step]_vars

\* a takedown of a stored identifier was rejected for its token
C11_Witness ==
    \E p \in Procs :
        /\ Responded(p, "takedown") /\ loc[p].status = 403
        /\ loc[p].body = [error |-> "Invalid deletion token"]
        /\ loc[p].data.deletion_token \in {"", "TOK", "bad"}
        /\ ServerLookupKey(loc[p].data.id) \in LookupKeys(urls)

\* a body of POST /shorten that passes the validation of the handler
C12_WellFormed(data) ==
    /\ {"LOOKUP_HASH", "ENCRYTION_SALT", "IV", "ENCRYPTED_URL"} \subseteq DOMAIN data
    /\ \A f \in {"ENCRYTION_SALT", "IV", "ENCRYPTED_URL"} : fromhex(data[f]).exc = ""

\* the step in which worker p takes a POST /shorten whose lookup hash is stored
C12_TakesStoredHash(p) ==
    /\ pc[p] = "idle" /\ loc'[p] # loc[p] /\ loc'[p].op = "shorten_client"
    /\ "LOOKUP_HASH" \in DOMAIN loc'[p].data
    /\ loc'[p].data.LOOKUP_HASH \in LookupKeys(client_side_urls)

C12_Rejected(p) ==
    /\ Returns(p)
    /\ loc'[p].status = 409
    /\ loc'[p].body = [error |-> "Lookup hash already exists"]
    /\ client_side_urls' = client_side_urls
    /\ urls' = urls

\* C12 as stated: every client-scheme create whose lookup hash is stored is
\* answered 409 "Lookup hash already exists" and the record stays as it was
C12_StoredHashGets409 ==
    [][\A p \in Procs : C12_TakesStoredHash(p) => C12_Rejected(p)]_vars

\* C12, amended: a client-scheme create that passes validation (four fields,
\* hex salt, IV and ciphertext) and whose lookup hash is stored is answered
\* 409 "Lookup hash already exists"; whatever the create, the stored record
\* stays as it was
C12_ValidStoredHashGets409 ==
    [][\A p \in Procs :
         C12_TakesStoredHash(p)
         => /\ client_side_urls' = client_side_urls /\ urls' = urls /\ Returns(p)
            /\ C12_WellFormed(loc'[p].data) => C12_Rejected(p)
            /\ ~C12_WellFormed(loc'[p].data) => loc'[p].status = 400]_vars

\* a well-formed create met its lookup hash with other material and got 409
C12_Witness ==
    \E p \in Procs :
        /\ Responded(p, "shorten_client") /\ loc[p].status = 409
        /\ \E r \in client_side_urls :
             /\ r.lookup_hash = loc[p].data.LOOKUP_HASH
             /\ r.iv # fromhex(loc[p].data.IV).bytes

\* the hex text of the bytes a hex string denotes: its digits in lower case,
\* the blanks between bytes dropped
RECURSIVE C13_Canonical(_)
C13_Canonical(s) ==
    IF s = "" THEN ""
    ELSE LET c == Char(s, 1)
             low == CASE c = "A" -> "a" [] c = "B" -> "b" [] c = "C" -> "c"
                      [] c = "D" -> "d" [] c = "E" -> "e" [] c = "F" -> "f"
                      [] c = " " -> "" [] OTHER -> c
         IN low \o C13_Canonical(SubSeq(s, 2, Len(s)))

\* the identifier hashing to lookup hash h has not been taken down
C13_Kept(h) == \A id \in generate_id : ClientLookupKey(id) = h => <<"client", id>> \notin removed

\* worker p returns from a fetch of the lookup hash of the created body d,
\* whose identifier has not been taken down
C13_Fetches(p, d) ==
    /\ pc[p] = "idle" /\ Returns(p) /\ loc'[p].op = "fetch"
    /\ d \in submitted
    /\ loc'[p].lookup_hash = d.LOOKUP_HASH
    /\ C13_Kept(d.LOOKUP_HASH)

\* C13 as stated: after a successful client-scheme create every later fetch of
\* its lookup hash, the identifier not taken down, returns exactly the
\* submitted encryption salt, IV and ciphertext strings.
C13_FetchReturnsSubmitted ==
    [][\A p \in Procs : \A d \in submitted :
         C13_Fetches(p, d)
         => /\ loc'[p].status = 200
            /\ loc'[p].body = [ENCRYTION_SALT |-> d.ENCRYTION_SALT, IV |-> d.IV,
                               ENCRYPTED_URL |-> d.ENCRYPTED_URL]]_vars

\* C13, amended: after a successful client-scheme create with a non-empty
\* lookup hash every later fetch of that lookup hash, the identifier not taken
\* down, returns the submitted encryption salt, IV and ciphertext re-encoded
\* as lower-case hex without blanks: the bytes are kept, not the strings. A
\* fetch of the empty lookup hash is refused with 400.
C13_FetchReturnsSubmittedBytes ==
    [][\A p \in Procs : \A d \in submitted :
         C13_Fetches(p, d)
         => IF d.LOOKUP_HASH = Text("")
            THEN loc'[p].status = 400
            ELSE /\ loc'[p].status = 200
                 /\ loc'[p].body =
                      [ENCRYTION_SALT |-> Text(C13_Canonical(d.ENCRYTION_SALT.s)),
                       IV |-> Text(C13_Canonical(d.IV.s)),
                       ENCRYPTED_URL |-> Text(C13_Canonical(d.ENCRYPTED_URL.s))]]_vars

\* the third request of a worker, a fetch, returned the material of an
\* earlier create in lower case where the create had sent upper case
C13_Witness ==
    \E p \in Procs : \E d \in submitted :
        /\ Responded(p, "fetch") /\ loc[p].status = 200
        /\ loc[p].lookup_hash = d.LOOKUP_HASH
        /\ d.IV = Text("1B") /\ loc[p].body.IV = Text("1b")
        /\ loc[p].n = 3
        /\ C13_Kept(d.LOOKUP_HASH)

\* the body of a client-scheme create has its four fields, each a valid hex
\* string
C14_AllHex(data) ==
    /\ {"LOOKUP_HASH", "ENCRYTION_SALT", "IV", "ENCRYPTED_URL"} \subseteq DOMAIN data
    /\ \A f \in {"LOOKUP_HASH", "ENCRYTION_SALT", "IV", "ENCRYPTED_URL"} :
         fromhex(data[f]).exc = ""

\* C14: a client-scheme create with one of its four fields (lookup_hash,
\* encryption_salt, iv, encrypted_url) missing or no valid hex string is
\* rejected as an input validation failure and stores nothing.
C14_MalformedCreateRejected ==
    [][\A p \in Procs :
         (Returns(p) /\ loc'[p].op = "shorten_client" /\ ~C14_AllHex(loc'[p].data))
         => /\ loc'[p].status = 400
            /\ client_side_urls' = client_side_urls /\ urls' = urls]_vars

\* record r was stored for identifier i: its lookup key is the derivation of
\* i under SALT1, and its IV and ciphertext decrypt under the derivation of i
\* under SALT2 to the marker or to the normalized destination of a create
\* that was given i
C15_StoredFor(r, i) ==
    /\ r.lookup_hash = hex(derive_key(encode(i), SALT1))
    /\ \E t \in {ABUSE_WARNING_MARKER}
                 \cup {C2_Target(c.given) : c \in {d \in created : d.id = i}} :
         decrypt_url(derive_key(encode(i), SALT2), r.iv, r.encrypted_url)
           = {[exc |-> "", text |-> t]}

\* C15: in every reachable state every record of the server namespace was
\* stored for some identifier i: its lookup key is the derivation of i under
\* the lookup secret and its IV and ciphertext decrypt, under the derivation
\* of the same i with the encryption secret, to the normalized destination
\* or to the takedown marker.
C15_ServerRecordsDecrypt ==
    \A r \in urls : \E i \in generate_id : C15_StoredFor(r, i)

\* two server records, one created and taken down, one created and kept
C15_Witness ==
    /\ Cardinality(urls) = 2
    /\ \E c \in created : <<"server", c.id>> \in removed
    /\ \E c \in created : <<"server", c.id>> \notin removed /\ c.row \in urls

(***************************************************************************)
(* encrypt_url and decrypt_url on their own, as the unit tests call them:  *)
(* a key and a plaintext are drawn, encrypt_url is applied to them, then   *)
(* decrypt_url is applied to a key, an IV and a ciphertext that are those  *)
(* of the encryption or others.  The call and its results are held in      *)
(* loc[1]; the tables stay empty.                                          *)
(***************************************************************************)
\* os.urandom(32), and keys of other lengths
CryptoKeys == urandom(KeyLength) \cup {Raw([i \in 1..n |-> 0]) : n \in {0, 16, 31, 33}}

\* the empty string, one character, non-ASCII text, texts that end one byte
\* before and on a block boundary, texts of one and of two blocks
CryptoPlaintexts ==
    {"", "a", "ñ", "https://x", "0123456789abcde", "0123456789abcdef",
     "https://example.com/ñoño"}

\* os.urandom(16), and an IV of another length
CryptoIvs == urandom(IvLength) \cup {Raw([i \in 1..8 |-> 0])}

\* n bytes that no encryption returned
Bytes(n) == [t |-> "bytes", len |-> n]

\* the ciphertexts handed to decrypt_url: the one encrypt_url returned,
\* os.urandom of the same length, the ciphertext without its last byte
CryptoCiphertexts(ciphertext) ==
    {ciphertext, Bytes(len(ciphertext)), Bytes(len(ciphertext) - 1)}

CryptoInit ==
    /\ urls = {}
    /\ client_side_urls = {}
    /\ config = [deletion_token |-> "tok"]
    /\ pc = [p \in Procs |-> IF p = 1 THEN "encrypt" ELSE "idle"]
    /\ \E key \in CryptoKeys, plaintext \in CryptoPlaintexts :
         loc = [p \in Procs |->
                  IF p = 1 THEN [op |-> "crypto", key |-> key, plaintext |-> plaintext]
                  ELSE Idle]
    /\ nreq = 0
    /\ nworkers = 1
    /\ created = {}
    /\ submitted = {}
    /\ removed = {}

\* iv, ciphertext = encrypt_url(key, plaintext)
crypto_encrypt ==
    /\ pc[1] = "encrypt"
    /\ \E iv \in urandom(IvLength) :
         LET encrypted == encrypt_url(loc[1].key, loc[1].plaintext, iv)
         IN /\ loc' = [loc EXCEPT ![1] = loc[1] @@ [encrypted |-> encrypted]]
            /\ pc' = [pc EXCEPT ![1] = IF encrypted.exc = "" THEN "decrypt" ELSE "done"]
    /\ UNCHANGED <<urls, client_side_urls, config, nreq, nworkers, created, submitted, removed>>

\* decrypt_url(key, iv, ciphertext)
crypto_decrypt ==
    /\ pc[1] = "decrypt"
    /\ \E key \in CryptoKeys, iv \in CryptoIvs,
          ciphertext \in CryptoCiphertexts(loc[1].encrypted.ciphertext) :
         \E decrypted \in decrypt_url(key, iv, ciphertext) :
            loc' = [loc EXCEPT ![1] =
                      loc[1] @@ [with |-> [key |-> key, iv |-> iv, ciphertext |-> ciphertext],
                                 decrypted |-> decrypted]]
    /\ pc' = [pc EXCEPT ![1] = "done"]
    /\ UNCHANGED <<urls, client_side_urls, config, nreq, nworkers, created, submitted, removed>>

CryptoNext == crypto_encrypt \/ crypto_decrypt

CryptoSpec == CryptoInit /\ [][CryptoNext]_vars

\* decrypt_url has returned or raised
Decrypted == pc[1] = "done" /\ "decrypted" \in DOMAIN loc[1]

\* decrypt_url was given the key of the encryption and the IV and the
\* ciphertext that encrypt_url returned
SameAsEncrypted ==
    /\ loc[1].with.key = loc[1].key
    /\ loc[1].with.iv = loc[1].encrypted.iv
    /\ loc[1].with.ciphertext = loc[1].encrypted.ciphertext

\* C16: for every plaintext p (the empty string, one character and non-ASCII
\* text among them) and every 32-byte key k, decrypting with k the IV and the
\* ciphertext that encrypting p with k returned yields exactly p.
C16_RoundTrip ==
    /\ (pc[1] # "encrypt" /\ len(loc[1].key) = KeyLength) => loc[1].encrypted.exc = ""
    /\ (Decrypted /\ SameAsEncrypted)
       => loc[1].decrypted = [exc |-> "", text |-> loc[1].plaintext]

\* a round trip of non-ASCII text of two blocks
C16_Witness ==
    /\ Decrypted /\ SameAsEncrypted
    /\ loc[1].plaintext = "https://example.com/ñoño"
    /\ len(loc[1].encrypted.ciphertext) = 2 * BlockSize
    /\ loc[1].decrypted = [exc |-> "", text |-> "https://example.com/ñoño"]

\* C17: decrypting with a key other than the one of the encryption, with an
\* IV other than the one the encryption returned, or with altered ciphertext
\* bytes signals the decryption failure; decrypt_url never returns a
\* plaintext different from the one that was encrypted.
C17_MismatchSignalsFailure ==
    /\ (Decrypted /\ ~SameAsEncrypted) => loc[1].decrypted.exc # ""
    /\ (Decrypted /\ loc[1].decrypted.exc = "") => loc[1].decrypted.text = loc[1].plaintext

\* the ValueError of the key check, told from the other ValueErrors by its
\* message
C18_InvalidKeyLength == [exc |-> "ValueError", msg |-> "Invalid key length"]

\* C18: encrypt_url and decrypt_url reject every key that is not exactly 32
\* bytes long before any cipher work, whatever the IV and the ciphertext are,
\* and signal it apart from a decryption or padding failure: a key of another
\* length always yields the invalid-key-length error, a key of 32 bytes
\* never does.
C18_KeyLengthChecked ==
    /\ pc[1] # "encrypt"
       => (loc[1].encrypted = C18_InvalidKeyLength <=> len(loc[1].key) # KeyLength)
    /\ Decrypted
       => (loc[1].decrypted = C18_InvalidKeyLength <=> len(loc[1].with.key) # KeyLength)

\* decrypt_url, given a key of 31 bytes, an IV of 8 bytes and a ciphertext cut
\* short, reported the key
C18_Witness ==
    /\ Decrypted
    /\ len(loc[1].with.key) = 31 /\ len(loc[1].with.iv) = 8
    /\ len(loc[1].with.ciphertext) % BlockSize # 0
    /\ loc[1].decrypted = C18_InvalidKeyLength

(***************************************************************************)
(* Resolves against a database the running server did not write: the       *)
(* sqlite file outlives the process and its configuration, and the urls    *)
(* table is shared with the earlier backend.  A stored row is intact, was  *)
(* written under another encryption secret, or has an IV or a ciphertext   *)
(* that is not the one written.                                            *)
(***************************************************************************)
\* the encryption secret of an earlier configuration
OLD_SALT2 == Raw([i \in 1..16 |-> 51])

StoredKinds ==
    {"intact", "marker", "other_secret", "other_iv", "short_iv", "other_bytes", "cut_short"}

\* the row found for identifier id
stored_row(id, kind) ==
    LET key == derive_key(encode(id), IF kind = "other_secret" THEN OLD_SALT2 ELSE SALT2)
        iv == Raw([i \in 1..IvLength |-> 0])
        encrypted == encrypt_url(key, IF kind = "marker" THEN ABUSE_WARNING_MARKER
                                                         ELSE "https://x", iv)
    IN [lookup_hash |-> hex(derive_key(encode(id), SALT1)),
        iv |-> CASE kind = "other_iv" -> Raw([i \in 1..IvLength |-> IF i = 1 THEN 1 ELSE 0])
                 [] kind = "short_iv" -> Raw([i \in 1..8 |-> 0])
                 [] OTHER -> iv,
        encrypted_url |-> CASE kind = "other_bytes" -> Bytes(len(encrypted.ciphertext))
                            [] kind = "cut_short" -> Bytes(len(encrypted.ciphertext) - 1)
                            [] OTHER -> encrypted.ciphertext]

ResolveInit ==
    /\ \E ids \in SUBSET generate_id, kind \in [generate_id -> StoredKinds] :
         urls = {stored_row(i, kind[i]) : i \in ids}
    /\ client_side_urls = {}
    /\ config = [deletion_token |-> "tok"]
    /\ pc = [p \in Procs |-> "idle"]
    /\ loc = [p \in Procs |-> Idle]
    /\ nreq = 0
    /\ nworkers \in Procs
    /\ created = {}
    /\ submitted = {}
    /\ removed = {}

ResolveNext == \E p \in Procs : redirect_url(p)

ResolveSpec == ResolveInit /\ [][ResolveNext]_vars

\* the results decrypt_url may have for the row found for identifier id
C19_Decryptions(id) ==
    UNION {decrypt_url(derive_key(encode(id), SALT2), row.iv, row.encrypted_url) :
             row \in select(urls, ServerLookupKey(id))}

\* C19: a resolve that finds a record reports every decryption failure, of
\* whatever cause (wrong key, other or short IV, other or cut ciphertext,
\* invalid padding, undecodable text), as one and the same answer, 500 with
\* the body 'Decryption failed' and nothing else: the answer is that one
\* whenever decryption can only fail, and a 500 answer is never another one.
C19_OneDecryptionFailure ==
    [][\A p \in Procs :
         (Returns(p) /\ loc'[p].op = "resolve" /\ loc'[p].status # 404)
         => LET failed == [op |-> "resolve", id |-> loc'[p].id, status |-> 500,
                           body |-> [error |-> "Decryption failed"], n |-> loc'[p].n]
                results == C19_Decryptions(loc'[p].id)
            IN /\ results # {}
               /\ (\A d \in results : d.exc # "") => loc'[p] = failed
               /\ loc'[p].status = 500
                    => (loc'[p] = failed /\ \E d \in results : d.exc # "")
               /\ loc'[p].status \in {200, 302, 500}]_vars

\* two resolves failed for different causes, a ciphertext cut short and a
\* row written under another secret, and got the same answer
C19_Witness ==
    /\ Responded(1, "resolve") /\ Responded(2, "resolve")
    /\ loc[1].status = 500 /\ loc[2].status = 500
    /\ loc[1].body = loc[2].body
    /\ stored_row(loc[1].id, "cut_short") \in urls
    /\ stored_row(loc[2].id, "other_secret") \in urls

\* exactly one record was added to table
C20_OneAdded(table, table_after) ==
    table \subseteq table_after /\ Cardinality(table_after) = Cardinality(table) + 1

C20_Step ==
    \A p \in Procs :
        /\ (Returns(p) /\ loc'[p].op = "shorten_server")
           => IF loc'[p].status = 201
              THEN C20_OneAdded(urls, urls') /\ client_side_urls' = client_side_urls
              ELSE urls' = urls /\ client_side_urls' = client_side_urls
        /\ (Returns(p) /\ loc'[p].op = "shorten_client")
           => IF loc'[p].status = 201
              THEN C20_OneAdded(client_side_urls, client_side_urls') /\ urls' = urls
              ELSE urls' = urls /\ client_side_urls' = client_side_urls
        /\ (pc[p] = "idle" /\ pc'[p] \in {"server_insert", "client_insert"})
           => urls' = urls /\ client_side_urls' = client_side_urls

\* C20: each successful create, server-scheme or client-scheme, adds exactly
\* one record to exactly one namespace, urls or client_side_urls, and every
\* create that fails (missing URL, allocator exhaustion, missing field,
\* invalid hex, duplicate lookup hash, refused INSERT) leaves both namespaces
\* unchanged, as does the part of a create before its INSERT.
C20_CreateAddsOneRecord == [][C20_Step]_vars

\* a server-scheme create and a client-scheme create have each added their
\* record, and a third create has failed
C20_Witness ==
    /\ Cardinality(urls) = 1 /\ Cardinality(client_side_urls) = 1
    /\ created # {} /\ submitted # {}
    /\ \E p \in Procs :
         /\ pc[p] = "idle" /\ loc[p].op \in {"shorten_server", "shorten_client"}
         /\ loc[p].status \in {400, 409, 500}

(***************************************************************************)
(* Start-up: the module body reads the two secrets from the configuration  *)
(* before the application serves a request.  Until then every worker is at *)
(* "startup"; an exception raised by the module body ends the process, and *)
(* every worker is at "failed".                                            *)
(***************************************************************************)
\* the values found under salts.salt1_var and salts.salt2_var: the secrets of
\* the test configuration, one of them written with blanks and in another
\* case, and values that are no 16 bytes of hex
Salt1Values ==
    {Text("11111111111111111111111111111111"),
     Text("11 11 11 11 11 11 11 11 11 11 11 11 11 11 11 11")}

Salt2Values == {Text("22222222222222222222222222222222")}

BadSaltValues ==
    {Text(""), Text("1111"), Text("111111111111111111111111111111"),
     Text("1111111111111111111111111111111111"),
     Text("1111111111111111111111111111111"),
     Text("zz111111111111111111111111111111"), [t |-> "number"]}

\* config['salts'], a key of which may be absent
ConfiguredSalts ==
    {[salt1_var |-> a, salt2_var |-> b] :
        a \in Salt1Values \cup BadSaltValues, b \in Salt2Values \cup BadSaltValues}
    \cup {[salt1_var |-> a] : a \in Salt1Values}
    \cup {[salt2_var |-> b] : b \in Salt2Values}

\* a loading of the secrets that does not look at their lengths
load_salts_any_length(salts) ==
    IF ~({"salt1_var", "salt2_var"} \subseteq DOMAIN salts) THEN [exc |-> "KeyError"]
    ELSE LET salt1 == fromhex(salts.salt1_var)
             salt2 == fromhex(salts.salt2_var)
         IN IF salt1.exc = "TypeError" THEN [exc |-> "TypeError"]
            ELSE IF salt1.exc # "" THEN [exc |-> "ValueError", msg |-> "Invalid salt format"]
            ELSE IF salt2.exc = "TypeError" THEN [exc |-> "TypeError"]
            ELSE IF salt2.exc # "" THEN [exc |-> "ValueError", msg |-> "Invalid salt format"]
            ELSE [exc |-> "", SALT1 |-> salt1.bytes, SALT2 |-> salt2.bytes]

\* the secrets the module body binds, or the exception that ends it: a
\* KeyError for an absent key, the ValueError "Invalid salt format" for a value
\* that is no hex or no 16 bytes, a TypeError, which the except clause does
\* not catch, for a value that is no string
load_salts(salts) ==
    IF ~({"salt1_var", "salt2_var"} \subseteq DOMAIN salts) THEN [exc |-> "KeyError"]
    ELSE LET salt1 == fromhex(salts.salt1_var)
             salt2 == fromhex(salts.salt2_var)
         IN IF salt1.exc = "TypeError" THEN [exc |-> "TypeError"]
            ELSE IF salt1.exc # "" THEN [exc |-> "ValueError", msg |-> "Invalid salt format"]
            ELSE IF salt2.exc = "TypeError" THEN [exc |-> "TypeError"]
            ELSE IF salt2.exc # "" THEN [exc |-> "ValueError", msg |-> "Invalid salt format"]
            ELSE IF len(salt1.bytes) # 16 \/ len(salt2.bytes) # 16
            THEN [exc |-> "ValueError", msg |-> "Invalid salt format"]
            ELSE [exc |-> "", SALT1 |-> salt1.bytes, SALT2 |-> salt2.bytes]

StartupInit ==
    /\ urls = {}
    /\ client_side_urls = {}
    /\ \E salts \in ConfiguredSalts : config = [deletion_token |-> "tok", salts |-> salts]
    /\ pc = [p \in Procs |-> "startup"]
    /\ loc = [p \in Procs |-> Idle]
    /\ nreq = 0
    /\ nworkers \in Procs
    /\ created = {}
    /\ submitted = {}
    /\ removed = {}

\* the module body up to app.run
startup ==
    /\ \A p \in Procs : pc[p] = "startup"
    /\ LET loaded == load_salts(config.salts)
       IN IF loaded.exc # ""
          THEN /\ pc' = [p \in Procs |-> "failed"]
               /\ loc' = [p \in Procs |-> [op |-> "startup", exc |-> loaded.exc]]
               /\ UNCHANGED config
          ELSE /\ pc' = [p \in Procs |-> "idle"]
               /\ config' = config @@ [SALT1 |-> loaded.SALT1, SALT2 |-> loaded.SALT2]
               /\ UNCHANGED loc
    /\ UNCHANGED <<urls, client_side_urls, nreq, nworkers, created, submitted, removed>>

StartupNext ==
    \/ startup
    \/ \E p \in Procs : \/ redirect_url(p)
                        \/ get_encrypted_url(p)

StartupSpec == StartupInit /\ [][StartupNext]_vars

\* a configured secret is hex that decodes to exactly 16 bytes
C21_Sixteen(salts, name) ==
    /\ name \in DOMAIN salts
    /\ salts[name].t = "str"
    /\ fromhex(salts[name]).exc = ""
    /\ Len(fromhex(salts[name]).bytes.v) = 16

C21_BothSixteen == C21_Sixteen(config.salts, "salt1_var") /\ C21_Sixteen(config.salts, "salt2_var")

\* C21: start-up fails, before any request is served, whenever one of the two
\* configured secrets is no valid hex or does not decode to exactly 16 bytes;
\* a request is only ever handled with both secrets bound to the 16 bytes the
\* configuration names, never with a secret of another length or a default.
C21_StartupFailsFast ==
    /\ (\E p \in Procs : pc[p] # "startup" /\ ~C21_BothSixteen)
       => /\ \A p \in Procs : pc[p] = "failed" /\ loc[p].op = "startup"
          /\ nreq = 0
    /\ (nreq > 0 \/ \E p \in Procs : pc[p] = "idle")
       => /\ C21_BothSixteen
          /\ config.SALT1 = fromhex(config.salts.salt1_var).bytes
          /\ config.SALT2 = fromhex(config.salts.salt2_var).bytes
          /\ config.SALT1 = SALT1 /\ config.SALT2 = SALT2

\* start-up has failed on a first secret of 17 bytes and a good second one
C21_Witness ==
    /\ \A p \in Procs : pc[p] = "failed"
    /\ "salt1_var" \in DOMAIN config.salts
    /\ config.salts.salt1_var = Text("1111111111111111111111111111111111")
    /\ C21_Sixteen(config.salts, "salt2_var")
    /\ loc[1].exc = "ValueError"

(***************************************************************************)
(* generate_id on its own: the configuration names an alphabet and a       *)
(* length, and generate_id is called once; loc[1] holds what it returned.  *)
(***************************************************************************)
\* the greatest configured length of an identifier
MaxIdLength == 2

\* the alphabets of the tests; the first is the one of the test configuration
AllowedChars ==
    {"abcdefghijkmnopqrstuvwxyzABCDEFGHJKLMNPQRSTUVWXYZ123456789", "abc123", "ab", "l0"}

\* a choice among the alphabet and the digit 0
choice_or_zero(seq) == {Char(seq, i) : i \in 1..Len(seq)} \cup {"0"}

\* secrets.choice(seq): the elements it may return
choice(seq) == {Char(seq, i) : i \in 1..Len(seq)}

\* ''.join(secrets.choice(allowed_chars) for _ in range(length)): the strings
\* it may return
RECURSIVE generate_id_with(_, _)
generate_id_with(allowed_chars, length) ==
    IF length = 0 THEN {""}
    ELSE {s \o c : s \in generate_id_with(allowed_chars, length - 1),
                   c \in choice(allowed_chars)}

IdInit ==
    /\ urls = {}
    /\ client_side_urls = {}
    /\ \E allowed_chars \in AllowedChars, length \in 0..MaxIdLength :
         config = [deletion_token |-> "tok",
                   id_generation |-> [allowed_chars |-> allowed_chars, length |-> length]]
    /\ pc = [p \in Procs |-> IF p = 1 THEN "generate" ELSE "idle"]
    /\ loc = [p \in Procs |-> Idle]
    /\ nreq = 0
    /\ nworkers = 1
    /\ created = {}
    /\ submitted = {}
    /\ removed = {}

\* id_str = generate_id()
id_generate ==
    /\ pc[1] = "generate"
    /\ \E id \in generate_id_with(config.id_generation.allowed_chars,
                                  config.id_generation.length) :
         loc' = [loc EXCEPT ![1] = [op |-> "generate_id", id |-> id]]
    /\ pc' = [pc EXCEPT ![1] = "done"]
    /\ UNCHANGED <<urls, client_side_urls, config, nreq, nworkers, created, submitted, removed>>

IdNext == id_generate

IdSpec == IdInit /\ [][IdNext]_vars

\* the characters of a string
C22_CharsOf(s) == {Char(s, i) : i \in 1..Len(s)}

\* C22: every generated identifier has exactly the configured length and
\* consists only of characters of the configured alphabet, so with an
\* alphabet that holds none of 0, O, I and l no generated identifier holds
\* one of them.
C22_IdWithinAlphabet ==
    pc[1] = "done"
    => LET id == loc[1].id
           allowed == C22_CharsOf(config.id_generation.allowed_chars)
       IN /\ Len(id) = config.id_generation.length
          /\ C22_CharsOf(id) \subseteq allowed
          /\ (allowed \cap {"0", "O", "I", "l"} = {})
             => (C22_CharsOf(id) \cap {"0", "O", "I", "l"} = {})

\* an identifier of the greatest length from the alphabet of the test
\* configuration, its last character the last one of the alphabet
C22_Witness ==
    /\ pc[1] = "done"
    /\ config.id_generation.allowed_chars
         = "abcdefghijkmnopqrstuvwxyzABCDEFGHJKLMNPQRSTUVWXYZ123456789"
    /\ Len(loc[1].id) = MaxIdLength
    /\ Char(loc[1].id, MaxIdLength) = "9"

\* C23: resolve consults the server namespace only: a resolve of an
\* identifier whose server lookup key is not stored answers not-found, whether
\* or not the client namespace holds a record for the identifier, and a
\* resolve of an identifier whose server lookup key is stored never does.
C23_ResolveServerOnly ==
    [][\A p \in Procs :
         (Returns(p) /\ loc'[p].op = "resolve")
         => IF ServerLookupKey(loc'[p].id) \in LookupKeys(urls)
            THEN loc'[p].status # 404
            ELSE /\ loc'[p].status = 404
                 /\ loc'[p].body = [error |-> "Link not found"]]_vars

\* a resolve answered not-found for an identifier that has a client-scheme
\* record and no server-scheme record
C23_Witness ==
    \E p \in Procs :
        /\ Responded(p, "resolve") /\ loc[p].status = 404
        /\ ClientLookupKey(loc[p].id) \in LookupKeys(client_side_urls)
        /\ ServerLookupKey(loc[p].id) \notin LookupKeys(urls)

(***************************************************************************)
(* The server after a server-scheme create of "https://x" under identifier *)
(* "a" and a takedown of "a": the state in which the two requests leave    *)
(* the tables, from which any requests follow.                             *)
(***************************************************************************)
AfterTakedownInit ==
    /\ \E iv \in urandom(IvLength) :
         LET id_bytes == encode("a")
             lookup_hash == hex(derive_key(id_bytes, SALT1))
             encryption_key == derive_key(id_bytes, SALT2)
             stored == encrypt_url(encryption_key, normalize_url("https://x"), iv)
             row == [lookup_hash |-> lookup_hash, iv |-> stored.iv,
                     encrypted_url |-> stored.ciphertext]
             warning == encrypt_url(encryption_key, ABUSE_WARNING_MARKER, iv)
         IN /\ urls = update_urls(insert_urls({}, row).table, warning.iv,
                                  warning.ciphertext, lookup_hash)
            /\ created = {[id |-> "a", given |-> "https://x", row |-> row]}
    /\ removed = {<<"server", "a">>}
    /\ client_side_urls = {}
    /\ config = [deletion_token |-> "tok"]
    /\ pc = [p \in Procs |-> "idle"]
    /\ loc = [p \in Procs |-> Idle]
    /\ nreq = 0
    /\ nworkers \in Procs
    /\ submitted = {}

AfterTakedownSpec == AfterTakedownInit /\ [][Next]_vars

\* C24: once a takedown of a server-scheme identifier has succeeded, every
\* later resolve of that identifier, after any further requests, answers
\* with the removed-link warning page, status 200, and never redirects.
C24_TakenDownStaysDown ==
    [][\A p \in Procs :
         (pc[p] = "idle" /\ Returns(p) /\ loc'[p].op = "resolve"
            /\ <<"server", loc'[p].id>> \in removed)
         => /\ loc'[p].status = 200
            /\ loc'[p].body = [page |-> "Link Removed - Abuse Detected"]]_vars

\* the resolve of the identifier taken down, the third request after the
\* takedown, a further create and a further takedown having gone before
C24_Witness ==
    \E p \in Procs :
        /\ Responded(p, "resolve") /\ loc[p].id = "a" /\ loc[p].n = 3
        /\ loc[p].status = 200
        /\ Cardinality(urls) = 2
        /\ <<"server", "b">> \in removed


(***************************************************************************)
(* The server after a server-scheme create of "https://x" under identifier *)
(* "a" and a client-scheme create under the client lookup hash of "a": the *)
(* identifier has a record in both namespaces.                             *)
(***************************************************************************)
BothSchemesInit ==
    /\ \E iv \in urandom(IvLength), m \in ClientMaterial :
         LET id_bytes == encode("a")
             lookup_hash == hex(derive_key(id_bytes, SALT1))
             encryption_key == derive_key(id_bytes, SALT2)
             stored == encrypt_url(encryption_key, normalize_url("https://x"), iv)
             row == [lookup_hash |-> lookup_hash, iv |-> stored.iv,
                     encrypted_url |-> stored.ciphertext]
             data == WithLookup(hash_id_for_lookup_client("a"), m)
             client_row == [lookup_hash |-> data.LOOKUP_HASH,
                            encryption_salt |-> fromhex(data.ENCRYTION_SALT).bytes,
                            iv |-> fromhex(data.IV).bytes,
                            encrypted_url |-> fromhex(data.ENCRYPTED_URL).bytes]
         IN /\ urls = insert_urls({}, row).table
            /\ created = {[id |-> "a", given |-> "https://x", row |-> row]}
            /\ client_side_urls = insert_client_side_urls({}, client_row).table
            /\ submitted = {data}
    /\ removed = {}
    /\ config = [deletion_token |-> "tok"]
    /\ pc = [p \in Procs |-> "idle"]
    /\ loc = [p \in Procs |-> Idle]
    /\ nreq = 0
    /\ nworkers \in Procs

BothSchemesSpec == BothSchemesInit /\ [][Next]_vars

\* the records of both namespaces that a step replaces or drops
C25_Rewritten ==
    Cardinality(urls \ urls') + Cardinality(client_side_urls \ client_side_urls')

\* C25: one takedown call rewrites at most one record. A takedown writes only
\* in its two UPDATE steps, each of which rewrites at most one record and is
\* the last step of the call; a takedown whose identifier has a server record
\* goes to the server UPDATE, which leaves the client namespace as it was; and
\* a fetch of the client lookup hash of an identifier taken down in the server
\* namespace only still returns the material submitted.
C25_TakedownRewritesOne ==
    [][\A p \in Procs :
         /\ (loc'[p] # loc[p] /\ loc'[p].op = "takedown")
            => /\ C25_Rewritten <= 1
               /\ pc[p] \notin {"delete_update_server", "delete_update_client"}
                  => (urls' = urls /\ client_side_urls' = client_side_urls)
               /\ pc[p] = "delete_update_server"
                  => (pc'[p] = "idle" /\ client_side_urls' = client_side_urls)
               /\ pc[p] = "delete_update_client"
                  => (pc'[p] = "idle" /\ urls' = urls)
               /\ (pc[p] = "idle" /\ "link_id" \in DOMAIN loc'[p]
                     /\ ServerLookupKey(loc'[p].link_id) \in LookupKeys(urls))
                  => pc'[p] = "delete_update_server"
         /\ \A d \in submitted : \A id \in generate_id :
              (C13_Fetches(p, d) /\ ClientLookupKey(id) = d.LOOKUP_HASH
                 /\ <<"server", id>> \in removed)
              => /\ loc'[p].status = 200
                 /\ loc'[p].body =
                      [ENCRYTION_SALT |-> Text(C13_Canonical(d.ENCRYTION_SALT.s)),
                       IV |-> Text(C13_Canonical(d.IV.s)),
                       ENCRYPTED_URL |-> Text(C13_Canonical(d.ENCRYPTED_URL.s))]]_vars

\* identifier "a", held in both namespaces, was taken down: its server record
\* is rewritten, its client record is the one created, and a later fetch of
\* its client lookup hash was answered with 200
C25_Witness ==
    \E p \in Procs :
        /\ Responded(p, "fetch") /\ loc[p].status = 200
        /\ loc[p].lookup_hash = ClientLookupKey("a")
        /\ <<"server", "a">> \in removed
        /\ \A c \in created : c.id = "a" => c.row \notin urls
        /\ \E r \in client_side_urls, d \in submitted :
             /\ r.lookup_hash = ClientLookupKey("a") /\ d.LOOKUP_HASH = r.lookup_hash
             /\ r.encryption_salt = fromhex(d.ENCRYTION_SALT).bytes
             /\ r.iv = fromhex(d.IV).bytes
             /\ r.encrypted_url = fromhex(d.ENCRYPTED_URL).bytes


\* the row a client-scheme create stores for the body d
C26_RowOf(d) ==
    [lookup_hash |-> d.LOOKUP_HASH,
     encryption_salt |-> fromhex(d.ENCRYTION_SALT).bytes,
     iv |-> fromhex(d.IV).bytes,
     encrypted_url |-> fromhex(d.ENCRYPTED_URL).bytes]

\* workers p and q each answered a client-scheme create, the first request of
\* each and the only requests so far, both bodies well-formed, with one lookup
\* hash and different material
C26_Raced(p, q) ==
    /\ p # q
    /\ Responded(p, "shorten_client") /\ Responded(q, "shorten_client")
    /\ loc[p].n <= 2 /\ loc[q].n <= 2
    /\ loc[p].status # 400 /\ loc[q].status # 400
    /\ loc[p].data.LOOKUP_HASH = loc[q].data.LOOKUP_HASH
    /\ loc[p].data # loc[q].data

\* C26: of two concurrent client-scheme creates with one lookup hash and
\* different material, under any interleaving, exactly one answers 201; the
\* client namespace holds exactly one record for the hash, whose salt, IV and
\* ciphertext are those of the create that answered 201; the other create
\* answers without success.
C26_ClientRaceHasOneWinner ==
    \A p, q \in Procs :
        C26_Raced(p, q)
        => \E w \in {p, q} : \E l \in {p, q} \ {w} :
             /\ loc[w].status = 201
             /\ loc[l].status \in {409, 500}
             /\ select(client_side_urls, loc[w].data.LOOKUP_HASH) = {C26_RowOf(loc[w].data)}

\* both creates passed the existence check before either INSERT: one answered
\* 201, the INSERT of the other was rejected
C26_Witness ==
    \E p, q \in Procs :
        /\ C26_Raced(p, q)
        /\ loc[p].status = 201 /\ loc[q].body = RejectedBody
        /\ C26_RowOf(loc[q].data) \notin client_side_urls
        /\ C26_RowOf(loc[p].data) \in client_side_urls


(***************************************************************************)
(* The server after a server-scheme create of "https://x" under identifier *)
(* "a" and a client-scheme create under the client lookup hash of "b": one *)
(* record in each namespace, on which requests then run concurrently.      *)
(***************************************************************************)
StoredInit ==
    /\ \E iv \in urandom(IvLength), m \in ClientMaterial :
         LET id_bytes == encode("a")
             lookup_hash == hex(derive_key(id_bytes, SALT1))
             encryption_key == derive_key(id_bytes, SALT2)
             stored == encrypt_url(encryption_key, normalize_url("https://x"), iv)
             row == [lookup_hash |-> lookup_hash, iv |-> stored.iv,
                     encrypted_url |-> stored.ciphertext]
             data == WithLookup(hash_id_for_lookup_client("b"), m)
             client_row == [lookup_hash |-> data.LOOKUP_HASH,
                            encryption_salt |-> fromhex(data.ENCRYTION_SALT).bytes,
                            iv |-> fromhex(data.IV).bytes,
                            encrypted_url |-> fromhex(data.ENCRYPTED_URL).bytes]
         IN /\ urls = insert_urls({}, row).table
            /\ created = {[id |-> "a", given |-> "https://x", row |-> row]}
            /\ client_side_urls = insert_client_side_urls({}, client_row).table
            /\ submitted = {data}
    /\ removed = {}
    /\ config = [deletion_token |-> "tok"]
    /\ pc = [p \in Procs |-> "idle"]
    /\ loc = [p \in Procs |-> Idle]
    /\ nreq = 0
    /\ nworkers \in Procs

StoredSpec == StoredInit /\ [][Next]_vars

\* the rows a takedown of id writes whole in the server namespace
C27_ServerWarningRows(id) ==
    {[lookup_hash |-> ServerLookupKey(id), iv |-> enc.iv, encrypted_url |-> enc.ciphertext] :
       enc \in {encrypt_url(derive_key(encode(id), SALT2), ABUSE_WARNING_MARKER, iv) :
                  iv \in urandom(IvLength)}}

\* the answers of a fetch to the records a takedown of id writes whole in the
\* client namespace
C27_ClientWarningBodies(id) ==
    {[ENCRYTION_SALT |-> hex(salt), IV |-> hex(enc.iv), ENCRYPTED_URL |-> hex(enc.ciphertext)] :
       <<salt, enc>> \in
         {<<salt, encrypt_url_client(derive_encryption_key_client(id, salt),
                                     ABUSE_WARNING_MARKER, iv)>> :
            salt \in urandom(SaltLength), iv \in urandom(IvLength)}}

\* a takedown of id is under way on another worker than p
C27_TakedownUnderWay(p, id) ==
    \E q \in Procs \ {p} :
        /\ pc[q] \in {"delete_update_server", "delete_probe_client", "delete_update_client"}
        /\ loc[q].link_id = id

\* C27: a resolve of a created identifier, at any point of a takedown of that
\* identifier on another worker, reads the record as created or the record as
\* the takedown writes it, IV and ciphertext together, and answers with the
\* redirect to the original destination or with the warning page, never with
\* "Decryption failed"; a fetch of a created lookup hash returns the material
\* submitted or the salt, IV and ciphertext of one takedown, never a mixture.
C27_ReadsSeeWholeRecords ==
    [][\A p \in Procs :
         /\ \A c \in created :
              (pc[p] = "idle" /\ Returns(p) /\ loc'[p].op = "resolve" /\ loc'[p].id = c.id)
              => \/ /\ select(urls, ServerLookupKey(c.id)) = {c.row}
                    /\ loc'[p].status = 302
                    /\ loc'[p].body = [location |-> normalize_url(c.given)]
                 \/ /\ select(urls, ServerLookupKey(c.id)) \subseteq C27_ServerWarningRows(c.id)
                    /\ loc'[p].status = 200
                    /\ loc'[p].body = [page |-> "Link Removed - Abuse Detected"]
         /\ \A d \in submitted :
              (pc[p] = "idle" /\ Returns(p) /\ loc'[p].op = "fetch"
                 /\ loc'[p].lookup_hash = d.LOOKUP_HASH /\ d.LOOKUP_HASH # Text(""))
              => /\ loc'[p].status = 200
                 /\ \/ loc'[p].body =
                         [ENCRYTION_SALT |-> Text(C13_Canonical(d.ENCRYTION_SALT.s)),
                          IV |-> Text(C13_Canonical(d.IV.s)),
                          ENCRYPTED_URL |-> Text(C13_Canonical(d.ENCRYPTED_URL.s))]
                    \/ \E id \in generate_id :
                         /\ ClientLookupKey(id) = d.LOOKUP_HASH
                         /\ loc'[p].body \in C27_ClientWarningBodies(id)]_vars

\* a resolve answered with the redirect while the takedown of its identifier
\* on the other worker had probed the record and not yet written it
C27_Witness ==
    \E p \in Procs :
        /\ Responded(p, "resolve") /\ loc[p].status = 302
        /\ \E q \in Procs \ {p} :
             pc[q] = "delete_update_server" /\ loc[q].link_id = loc[p].id

\* a fetch answered with the material of the takedown that the other worker
\* had just written, and a resolve with the warning page likewise
C27_WitnessNew ==
    \E p \in Procs :
        /\ Responded(p, "fetch") /\ loc[p].status = 200
        /\ \E q \in Procs \ {p} : \E id \in generate_id :
             /\ Responded(q, "takedown") /\ loc[q].status = 200
             /\ <<"client", id>> \in removed
             /\ loc[p].body \in C27_ClientWarningBodies(id)


\* C28: once a takedown of a client-scheme identifier has succeeded, the
\* record stored under the client lookup hash of the identifier is
\* self-consistent, then and after any further requests: its ciphertext,
\* decrypted with its IV under the client-scheme key derived from the
\* identifier and its salt, is exactly the takedown marker.
C28_ClientTakedownSelfConsistent ==
    \A id \in generate_id :
        <<"client", id>> \in removed
        => \E r \in client_side_urls :
             /\ select(client_side_urls, ClientLookupKey(id)) = {r}
             /\ decrypt_url(derive_encryption_key_client(id, r.encryption_salt),
                            r.iv, r.encrypted_url)
                  = {[exc |-> "", text |-> ABUSE_WARNING_MARKER]}

\* the client record of "b" was taken down: it holds none of the material
\* submitted, and a fetch after the takedown returned what it holds
C28_Witness ==
    \E p \in Procs :
        /\ <<"client", "b">> \in removed
        /\ Responded(p, "fetch") /\ loc[p].status = 200
        /\ loc[p].lookup_hash = ClientLookupKey("b")
        /\ \E r \in select(client_side_urls, ClientLookupKey("b")) :
             /\ loc[p].body.ENCRYTION_SALT = hex(r.encryption_salt)
             /\ \A d \in submitted :
                  d.LOOKUP_HASH = r.lookup_hash
                  => /\ r.encryption_salt # fromhex(d.ENCRYTION_SALT).bytes
                     /\ r.iv # fromhex(d.IV).bytes
                     /\ r.encrypted_url # fromhex(d.ENCRYPTED_URL).bytes


(***************************************************************************)
(* Reads against a database the running server did not write (the rows of  *)
(* ResolveInit) that may also hold a client-scheme record: resolves and    *)
(* fetches with every outcome they have.                                   *)
(***************************************************************************)
ReadInit ==
    /\ \E ids \in SUBSET generate_id, kind \in [generate_id -> StoredKinds] :
         urls = {stored_row(i, kind[i]) : i \in ids}
    /\ \E rows \in SUBSET {[lookup_hash |-> hash_id_for_lookup_client("b"),
                              encryption_salt |-> fromhex(m.ENCRYTION_SALT).bytes,
                              iv |-> fromhex(m.IV).bytes,
                              encrypted_url |-> fromhex(m.ENCRYPTED_URL).bytes] :
                               m \in ClientMaterial} :
         /\ Cardinality(rows) <= 1
         /\ client_side_urls = rows
    /\ config = [deletion_token |-> "tok"]
    /\ pc = [p \in Procs |-> "idle"]
    /\ loc = [p \in Procs |-> Idle]
    /\ nreq = 0
    /\ nworkers \in Procs
    /\ created = {}
    /\ submitted = {}
    /\ removed = {}

ReadNext == \E p \in Procs : redirect_url(p) \/ get_encrypted_url(p)

ReadSpec == ReadInit /\ [][ReadNext]_vars

\* C29: resolve and fetch are read-only: whatever the answer (redirect,
\* warning page, not found, missing parameter, decryption failed), the step
\* leaves every record of urls and of client_side_urls as it was.
C29_ReadsWriteNothing ==
    [][\A p \in Procs :
         (Returns(p) /\ loc'[p].op \in {"resolve", "fetch"})
         => (urls' = urls /\ client_side_urls' = client_side_urls)]_vars

\* a resolve answered "Decryption failed" and a fetch answered with the
\* material of a stored record, the records being there still
C29_Witness ==
    \E p, q \in Procs :
        /\ Responded(p, "resolve") /\ loc[p].status = 500
        /\ select(urls, ServerLookupKey(loc[p].id)) # {}
        /\ Responded(q, "fetch") /\ loc[q].status = 200
        /\ select(client_side_urls, loc[q].lookup_hash) # {}


(***************************************************************************)
(* The server under each configuration of the deletion token: none, the    *)
(* empty one, and "tok".                                                   *)
(***************************************************************************)
TokenConfigs ==
    {[database |-> "urls.db"],
     [database |-> "urls.db", deletion_token |-> ""],
     [database |-> "urls.db", deletion_token |-> "tok"]}

TokenInit ==
    /\ urls = {}
    /\ client_side_urls = {}
    /\ config \in TokenConfigs
    /\ pc = [p \in Procs |-> "idle"]
    /\ loc = [p \in Procs |-> Idle]
    /\ nreq = 0
    /\ nworkers \in Procs
    /\ created = {}
    /\ submitted = {}
    /\ removed = {}

TokenSpec == TokenInit /\ [][Next]_vars

\* no deletion token is configured: the key is absent or its value is empty
C30_NoToken == "deletion_token" \notin DOMAIN config \/ config.deletion_token = ""

\* C30: when no deletion token is configured, every takedown request,
\* whatever its body (with or without id and deletion_token, the empty
\* deletion_token included), is answered at once with 403 "URL deletion is
\* disabled" and changes no record; when a token is configured, a request
\* lacking id or deletion_token is answered at once with 400 "Missing id or
\* deletion_token", whatever the tables hold, and changes no record.
C30_DisabledOrMissingRejected ==
    [][\A p \in Procs :
         (loc'[p] # loc[p] /\ loc'[p].op = "takedown")
         => /\ C30_NoToken
               => /\ pc[p] = "idle" /\ Returns(p)
                  /\ loc'[p].status = 403
                  /\ loc'[p].body = [error |-> "URL deletion is disabled"]
                  /\ urls' = urls /\ client_side_urls' = client_side_urls
            /\ (~C30_NoToken /\ pc[p] = "idle" /\ Returns(p) /\ "data" \in DOMAIN loc'[p]
                  /\ ("id" \notin DOMAIN loc'[p].data
                        \/ "deletion_token" \notin DOMAIN loc'[p].data))
               => /\ loc'[p].status = 400
                  /\ loc'[p].body = [error |-> "Missing id or deletion_token"]
                  /\ urls' = urls /\ client_side_urls' = client_side_urls
            /\ (~C30_NoToken /\ pc[p] = "idle" /\ ~Returns(p))
               => loc'[p].deletion_token = config.deletion_token]_vars

\* the configured token is empty, identifier "a" is stored, and a takedown
\* of "a" with the empty deletion_token was refused as disabled
C30_Witness ==
    \E p \in Procs :
        /\ "deletion_token" \in DOMAIN config /\ config.deletion_token = ""
        /\ Responded(p, "takedown") /\ loc[p].status = 403
        /\ loc[p].body = [error |-> "URL deletion is disabled"]
        /\ loc[p].data = [id |-> "a", deletion_token |-> ""]
        /\ ServerLookupKey("a") \in LookupKeys(urls)

\* no token is configured at all, and a takedown with the token "tok" of the
\* stored identifier "a" was refused as disabled
C30_WitnessAbsent ==
    \E p \in Procs :
        /\ "deletion_token" \notin DOMAIN config
        /\ Responded(p, "takedown") /\ loc[p].status = 403
        /\ loc[p].data = [id |-> "a", deletion_token |-> "tok"]
        /\ ServerLookupKey("a") \in LookupKeys(urls)

====
